---- MODULE Spec2Model ----
(***************************************************************************)
(* Automated Table Views: the POST /api/page-data handler of the backend   *)
(* (page catalog lookup, schema read, option discovery, predicate          *)
(* compilation, paginated row query and count query) as a state machine.   *)
(*                                                                         *)
(* Strings that the code transforms (filter values, modalities, types,     *)
(* SQL literals) are sequences of one-character strings, so lower-casing,  *)
(* quoting and number parsing are computed, not assumed.  Object keys      *)
(* (column names, page and saved-filter identifiers) are plain strings.    *)
(***************************************************************************)
EXTENDS Integers, Sequences, FiniteSets, TLC

(***************************************************************************)
(* JavaScript values                                                       *)
(***************************************************************************)
\* One shape for every JS value so that any two can be compared.
JStr(s) == [t |-> "str", s |-> s, n |-> 0, b |-> FALSE]
JNum(n) == [t |-> "num", s |-> <<>>, n |-> n, b |-> FALSE]
JBool(b) == [t |-> "bool", s |-> <<>>, n |-> 0, b |-> b]
JNaN == [t |-> "nan", s |-> <<>>, n |-> 0, b |-> FALSE]
JNull == [t |-> "null", s |-> <<>>, n |-> 0, b |-> FALSE]
JUndef == [t |-> "undef", s |-> <<>>, n |-> 0, b |-> FALSE]

UpperLetters ==
    <<"A","B","C","D","E","F","G","H","I","J","K","L","M",
      "N","O","P","Q","R","S","T","U","V","W","X","Y","Z">>
LowerLetters ==
    <<"a","b","c","d","e","f","g","h","i","j","k","l","m",
      "n","o","p","q","r","s","t","u","v","w","x","y","z">>
Digits == <<"0","1","2","3","4","5","6","7","8","9">>

LetterIndex(letters, c) ==
    IF \E i \in 1..Len(letters) : letters[i] = c
    THEN CHOOSE i \in 1..Len(letters) : letters[i] = c
    ELSE 0

\* The characters strings are made of here.
Chars ==
    {UpperLetters[i] : i \in 1..Len(UpperLetters)}
    \cup {LowerLetters[i] : i \in 1..Len(LowerLetters)}
    \cup {Digits[i] : i \in 1..Len(Digits)}
    \cup {" ", "%", "'", "-", "_", "\\"}

LowerOf ==
    [c \in Chars |->
        IF LetterIndex(UpperLetters, c) > 0
        THEN LowerLetters[LetterIndex(UpperLetters, c)] ELSE c]
UpperOf ==
    [c \in Chars |->
        IF LetterIndex(LowerLetters, c) > 0
        THEN UpperLetters[LetterIndex(LowerLetters, c)] ELSE c]

\* String.prototype.toLowerCase / toUpperCase, character by character.
toLowerCase(s) == [i \in 1..Len(s) |-> LowerOf[s[i]]]
toUpperCase(s) == [i \in 1..Len(s) |-> UpperOf[s[i]]]

\* s contains t as a contiguous substring.
Includes(s, t) ==
    \E i \in 0..(Len(s) - Len(t)) : SubSeq(s, i + 1, i + Len(t)) = t

StartsWith(s, t) == Len(t) <= Len(s) /\ SubSeq(s, 1, Len(t)) = t

IsDigit(c) == LetterIndex(Digits, c) > 0
DigitValue(c) == LetterIndex(Digits, c) - 1

RECURSIVE DigitsValue(_)
DigitsValue(s) ==
    IF s = <<>> THEN 0
    ELSE 10 * DigitsValue(SubSeq(s, 1, Len(s) - 1)) + DigitValue(s[Len(s)])

RECURSIVE NatToStr(_)
NatToStr(n) ==
    IF n < 10 THEN <<Digits[n + 1]>>
    ELSE NatToStr(n \div 10) \o <<Digits[(n % 10) + 1]>>

IntToStr(n) == IF n < 0 THEN <<"-">> \o NatToStr(0 - n) ELSE NatToStr(n)

\* Leading and trailing blanks removed, as Number() does before parsing.
RECURSIVE TrimBlanks(_)
TrimBlanks(s) ==
    IF s = <<>> THEN s
    ELSE IF s[1] = " " THEN TrimBlanks(Tail(s))
    ELSE IF s[Len(s)] = " " THEN TrimBlanks(SubSeq(s, 1, Len(s) - 1))
    ELSE s

AllDigits(s) == s # <<>> /\ \A i \in 1..Len(s) : IsDigit(s[i])

\* Number(v): undefined -> NaN, null -> 0, booleans -> 0/1, '' -> 0,
\* a decimal integer string -> its value, any other string -> NaN.
Number(v) ==
    CASE v.t = "num" -> v
      [] v.t = "nan" -> JNaN
      [] v.t = "undef" -> JNaN
      [] v.t = "null" -> JNum(0)
      [] v.t = "bool" -> JNum(IF v.b THEN 1 ELSE 0)
      [] OTHER ->
            LET s == TrimBlanks(v.s) IN
            IF s = <<>> THEN JNum(0)
            ELSE IF AllDigits(s) THEN JNum(DigitsValue(s))
            ELSE IF s[1] = "-" /\ AllDigits(Tail(s)) THEN JNum(0 - DigitsValue(Tail(s)))
            ELSE JNaN

\* String(v), also the text a template literal `${v}` interpolates.
String(v) ==
    CASE v.t = "str" -> v.s
      [] v.t = "num" -> IntToStr(v.n)
      [] v.t = "nan" -> <<"N","a","N">>
      [] v.t = "bool" -> IF v.b THEN <<"t","r","u","e">> ELSE <<"f","a","l","s","e">>
      [] v.t = "null" -> <<"n","u","l","l">>
      [] OTHER -> <<"u","n","d","e","f","i","n","e","d">>

\* JS truthiness, as tested by `v ? a : b`, `!v` and `v || d`.
Truthy(v) ==
    CASE v.t = "str" -> v.s # <<>>
      [] v.t = "num" -> v.n # 0
      [] v.t = "bool" -> v.b
      [] OTHER -> FALSE

\* arr[i] of a JS array (0-based i): undefined past the end.
At(arr, i) == IF i + 1 <= Len(arr) THEN arr[i + 1] ELSE JUndef

(***************************************************************************)
(* String constants of the source, spelled out as character sequences      *)
(***************************************************************************)
\* Archetype and schema type names.
Type ==
    [LIST |-> <<"L","I","S","T">>,
     BOOLEAN |-> <<"B","O","O","L","E","A","N">>,
     BOOL |-> <<"B","O","O","L">>,
     NUMERIC |-> <<"N","U","M","E","R","I","C">>,
     DATE |-> <<"D","A","T","E">>,
     DATETIME |-> <<"D","A","T","E","T","I","M","E">>,
     TIMESTAMP |-> <<"T","I","M","E","S","T","A","M","P">>,
     FREETEXT |-> <<"F","R","E","E","T","E","X","T">>,
     STRING_ |-> <<"S","T","R","I","N","G">>,
     RECORD |-> <<"R","E","C","O","R","D">>,
     INT64 |-> <<"I","N","T","6","4">>]

\* Modality names.
Modality ==
    [is_null |-> <<"i","s","_","n","u","l","l">>,
     empty |-> <<"e","m","p","t","y">>,
     is_empty |-> <<"i","s"," ","e","m","p","t","y">>,
     is_not_null |-> <<"i","s","_","n","o","t","_","n","u","l","l">>,
     not_empty |-> <<"n","o","t","_","e","m","p","t","y">>,
     is_not_empty |-> <<"i","s"," ","n","o","t"," ","e","m","p","t","y">>,
     greater_than |-> <<"g","r","e","a","t","e","r"," ","t","h","a","n">>,
     less_than |-> <<"l","e","s","s"," ","t","h","a","n">>,
     between |-> <<"b","e","t","w","e","e","n">>,
     before |-> <<"b","e","f","o","r","e">>,
     after |-> <<"a","f","t","e","r">>,
     exact |-> <<"e","x","a","c","t">>,
     starts_with |-> <<"s","t","a","r","t","s"," ","w","i","t","h">>,
     contains |-> <<"c","o","n","t","a","i","n","s">>,
     Contains |-> <<"C","o","n","t","a","i","n","s">>,
     equals |-> <<"e","q","u","a","l","s">>,
     on |-> <<"o","n">>,
     is |-> <<"i","s">>]

\* Option tokens of the filter config that the user path recognises.
Token ==
    [Empty |-> <<"E","m","p","t","y">>,
     Not_Empty |-> <<"N","o","t"," ","E","m","p","t","y">>,
     top10 |-> <<"t","o","p"," ","1","0","%">>,
     bottom10 |-> <<"b","o","t","t","o","m"," ","1","0","%">>,
     today |-> <<"t","o","d","a","y">>,
     yesterday |-> <<"y","e","s","t","e","r","d","a","y">>,
     last_7_days |-> <<"l","a","s","t"," ","7"," ","d","a","y","s">>,
     this_month |-> <<"t","h","i","s"," ","m","o","n","t","h">>,
     last_month |-> <<"l","a","s","t"," ","m","o","n","t","h">>,
     tomorrow |-> <<"t","o","m","o","r","r","o","w">>,
     next_7_days |-> <<"n","e","x","t"," ","7"," ","d","a","y","s">>,
     next_month |-> <<"n","e","x","t"," ","m","o","n","t","h">>]

\* SQL keywords the fragments spell out.
Sql ==
    [Null |-> <<"N","U","L","L">>,
     True |-> <<"T","R","U","E">>,
     False |-> <<"F","A","L","S","E">>]

\* Texts of the catalog, of the table cells and of the request values.
Text ==
    [ak |-> <<"a","k">>,
     PUBLISHED |-> <<"P","U","B","L","I","S","H","E","D">>,
     Akash |-> <<"A","k","a","s","h">>,
     bob |-> <<"b","o","b">>,
     active |-> <<"a","c","t","i","v","e">>,
     pending |-> <<"p","e","n","d","i","n","g">>,
     DRAFT |-> <<"D","R","A","F","T">>,
     p1 |-> <<"p","1">>,
     CONTAINS |-> <<"C","O","N","T","A","I","N","S">>,
     list |-> <<"l","i","s","t">>,
     false |-> <<"f","a","l","s","e">>,
     five |-> <<"5">>,
     abc |-> <<"a","b","c">>,
     date |-> <<"2","0","2","4","-","0","1","-","1","5">>,
     quoted |-> <<"O","'","B">>,
     slashed |-> <<"a","\\">>,
     wild |-> <<"a","_","c">>]

(***************************************************************************)
(* Filter definitions and predicate fragments                              *)
(***************************************************************************)
\* A definition's modality: a bare string, an array, or absent.
ModStr(s) == [k |-> "str", s |-> s, items |-> <<>>]
ModArr(items) == [k |-> "arr", s |-> <<>>, items |-> items]
ModAbsent == [k |-> "absent", s |-> <<>>, items |-> <<>>]

\* A definition's values: an array, or anything else (absent included).
Arr(items) == [isArray |-> TRUE, items |-> items]
NotArr == [isArray |-> FALSE, items |-> <<>>]

\* { type, modality, values }; type is a JS string or undefined.
Def(type, modality, values) == [type |-> type, modality |-> modality, values |-> values]

\* A predicate fragment: the SQL text the code builds, kept in its parts.
\* op names the template, col the back-quoted identifier, cmp the operator
\* or token chosen, args the interpolated SQL texts, in order.
Pred(op, col, cmp, args) == [op |-> op, col |-> col, cmp |-> cmp, args |-> args]
\* The JS null returned when nothing is to be added to the AND-chain.
NullPred == [op |-> "null", col |-> "", cmp |-> "", args |-> <<>>]

\* String.replace(/'/g, "''")
RECURSIVE DoubleQuotes(_)
DoubleQuotes(s) ==
    IF s = <<>> THEN <<>>
    ELSE (IF s[1] = "'" THEN <<"'", "'">> ELSE <<s[1]>>) \o DoubleQuotes(Tail(s))

sqlStringLiteral(value) ==
    IF value.t \in {"null", "undef"} THEN Sql.Null
    ELSE <<"'">> \o DoubleQuotes(String(value)) \o <<"'">>

\* Variant: the two predicates are swapped.
buildEmptyNotEmpty_Swapped(column) ==
    [empty |-> Pred("NOT_EMPTY", column, "", <<>>),
     notEmpty |-> Pred("EMPTY", column, "", <<>>)]

buildEmptyNotEmpty(column) ==
    [empty |-> Pred("EMPTY", column, "", <<>>),
     notEmpty |-> Pred("NOT_EMPTY", column, "", <<>>)]

\* Variant: a modality given as an array is ignored.
normalizeModality_StringOnly(mod) ==
    IF mod.k = "str" THEN toLowerCase(mod.s) ELSE <<>>

\* Variant: the modality keeps its letter case.
normalizeModality_KeepCase(mod) ==
    IF mod.k = "arr" /\ Len(mod.items) > 0 THEN String(mod.items[1])
    ELSE IF mod.k = "str" THEN mod.s
    ELSE <<>>

normalizeModality(mod) ==
    IF mod.k = "arr" /\ Len(mod.items) > 0 THEN toLowerCase(String(mod.items[1]))
    ELSE IF mod.k = "str" THEN toLowerCase(mod.s)
    ELSE <<>>

\* (def.type || fallback || '').toUpperCase()
TypeOf(type, fallback) ==
    toUpperCase(IF Truthy(type) THEN type.s ELSE fallback)

ValuesOf(def) == IF def.values.isArray THEN def.values.items ELSE <<>>

\* `${Number(v)}`
NumberText(v) == String(Number(v))

\* The FREETEXT tail shared by both builders.
FreeTextPredicate(column, modality, values) ==
    IF Len(values) > 0
    THEN LET v == String(values[1])
             pattern == IF modality = Modality.starts_with THEN v \o <<"%">>
                        ELSE IF modality = Modality.exact THEN v
                        ELSE <<"%">> \o v \o <<"%">>
             op == IF modality = Modality.exact THEN "=" ELSE "LIKE"
         IN Pred("LOWER_TEXT", column, op, <<sqlStringLiteral(JStr(pattern))>>)
    ELSE NullPred

MapLiterals(values) == [i \in 1..Len(values) |-> sqlStringLiteral(values[i])]

buildPredicateFromDef(column, def) ==
    LET type == TypeOf(def.type, <<>>)
        modality == normalizeModality(def.modality)
        values == ValuesOf(def)
        v0 == At(values, 0)
        v1 == At(values, 1)
        isDate == type \in {Type.DATE, Type.DATETIME, Type.TIMESTAMP}
    IN
    IF ~isDate /\ modality \in {Modality.is_null, Modality.empty, Modality.is_empty}
        THEN buildEmptyNotEmpty(column).empty
    ELSE IF ~isDate /\ modality \in {Modality.is_not_null, Modality.not_empty, Modality.is_not_empty}
        THEN buildEmptyNotEmpty(column).notEmpty
    ELSE IF type = Type.LIST
        THEN IF Len(values) = 0 THEN NullPred
             ELSE Pred("IN", column, "IN", MapLiterals(values))
    ELSE IF type \in {Type.BOOLEAN, Type.BOOL}
        THEN IF Len(values) = 0 THEN NullPred
             ELSE Pred("BOOL_EQ", column, "=",
                       <<IF Truthy(values[1]) THEN Sql.True ELSE Sql.False>>)
    ELSE IF type = Type.NUMERIC
        THEN IF modality = Modality.greater_than
                 THEN Pred("NUM", column, ">", <<NumberText(v0)>>)
             ELSE IF modality = Modality.less_than
                 THEN Pred("NUM", column, "<", <<NumberText(v0)>>)
             ELSE IF modality = Modality.between
                 THEN Pred("NUM", column, "BETWEEN", <<NumberText(v0), NumberText(v1)>>)
             ELSE Pred("NUM", column, "=", <<NumberText(v0)>>)
    ELSE IF isDate
        THEN IF ~Truthy(v0) /\ ~Truthy(v1) THEN NullPred
             ELSE IF modality = Modality.before
                 THEN Pred("DATE", column, "<", <<sqlStringLiteral(v0)>>)
             ELSE IF modality = Modality.after
                 THEN Pred("DATE", column, ">", <<sqlStringLiteral(v0)>>)
             ELSE IF modality = Modality.between
                 THEN Pred("DATE", column, "BETWEEN",
                           <<sqlStringLiteral(v0), sqlStringLiteral(v1)>>)
             ELSE Pred("DATE", column, "=", <<sqlStringLiteral(v0)>>)
    ELSE FreeTextPredicate(column, modality, values)

\* The relative DATE tokens of the user path, in the order the code tests them.
RelativeTokens ==
    <<Token.today, Token.yesterday, Token.last_7_days, Token.this_month, Token.last_month,
      Token.tomorrow, Token.next_7_days, Token.next_month>>

\* The fragment of a relative DATE token, on DATE(column). A date expression
\* is kept as CURRENT_DATE followed by the calls applied to it, innermost
\* first: DATE_TRUNC (to MONTH), or DATE_ADD / DATE_SUB with the size and
\* the unit of the interval.
RelativeDatePredicate(column, token) ==
    LET today == <<"CURRENT_DATE">>
        monthStart == <<"CURRENT_DATE", "DATE_TRUNC">>
    IN
    CASE token = Token.today -> Pred("DATE_REL", column, "=", <<today>>)
      [] token = Token.yesterday ->
            Pred("DATE_REL", column, "=", <<today \o <<"DATE_SUB", "1", "DAY">> >>)
      [] token = Token.last_7_days ->
            Pred("DATE_REL", column, "BETWEEN", <<today \o <<"DATE_SUB", "7", "DAY">>, today>>)
      [] token = Token.this_month ->
            Pred("DATE_REL", column, "BETWEEN", <<monthStart, today>>)
      [] token = Token.last_month ->
            Pred("DATE_REL", column, "BETWEEN",
                 <<monthStart \o <<"DATE_SUB", "1", "MONTH">>,
                   monthStart \o <<"DATE_SUB", "1", "DAY">> >>)
      [] token = Token.tomorrow ->
            Pred("DATE_REL", column, "=", <<today \o <<"DATE_ADD", "1", "DAY">> >>)
      [] token = Token.next_7_days ->
            Pred("DATE_REL", column, "BETWEEN", <<today, today \o <<"DATE_ADD", "7", "DAY">> >>)
      [] token = Token.next_month ->
            Pred("DATE_REL", column, "BETWEEN",
                 <<today \o <<"DATE_ADD", "1", "MONTH", "DATE_TRUNC">>,
                   today \o <<"DATE_ADD", "2", "MONTH", "DATE_TRUNC", "DATE_SUB", "1", "DAY">> >>)
      [] OTHER -> NullPred

buildPredicateFromUser(column, userDef, fieldType) ==
    LET type == TypeOf(userDef.type, fieldType)
        values == ValuesOf(userDef)
        modality == normalizeModality(userDef.modality)
        token == At(values, 0)
        isDate == type \in {Type.DATE, Type.DATETIME, Type.TIMESTAMP}
    IN
    IF Len(values) = 1 /\ values[1] \in {JStr(Token.Empty), JStr(Token.Not_Empty)}
        THEN IF values[1] = JStr(Token.Empty) THEN buildEmptyNotEmpty(column).empty
             ELSE buildEmptyNotEmpty(column).notEmpty
    ELSE IF ~isDate /\ modality \in {Modality.is_null, Modality.empty, Modality.is_empty}
        THEN buildEmptyNotEmpty(column).empty
    ELSE IF ~isDate /\ modality \in {Modality.is_not_null, Modality.not_empty, Modality.is_not_empty}
        THEN buildEmptyNotEmpty(column).notEmpty
    ELSE IF type = Type.LIST
        THEN IF Len(values) = 0 THEN NullPred
             ELSE Pred("IN", column, "IN", MapLiterals(values))
    ELSE IF type \in {Type.BOOLEAN, Type.BOOL}
        THEN IF Len(values) = 0 THEN NullPred
             ELSE Pred("BOOL_EQ", column, "=",
                       <<IF Truthy(values[1]) THEN Sql.True ELSE Sql.False>>)
    ELSE IF type = Type.NUMERIC
        THEN IF Len(values) = 0 THEN NullPred
             ELSE IF values[1].t = "str"
                     /\ (Includes(toLowerCase(values[1].s), Token.top10)
                         \/ Includes(toLowerCase(values[1].s), Token.bottom10))
                 THEN NullPred
             ELSE Pred("NUM", column, "=", <<NumberText(values[1])>>)
    ELSE IF isDate
        THEN IF ~Truthy(token) THEN NullPred
             ELSE IF token.t = "str" THEN RelativeDatePredicate(column, token.s)
             ELSE NullPred
    ELSE FreeTextPredicate(column, modality, values)

(***************************************************************************)
(* The Page Catalog                                                        *)
(***************************************************************************)

\* An object is kept as the sequence of its [key, value] entries, in the
\* order Object.entries() yields them.
Entry(col, def) == [col |-> col, def |-> def]

pageDefinitions ==
    [leads_view |->
        [pageIdentifier |-> "leads_view",
         title |-> "All Leads",
         subtitle |-> "A comprehensive list of all leads in the system",
         datasetId |-> "relata_schema",
         tableId |-> "activity",
         savedFilters |->
            <<[identifier |-> "high_priority_leads",
               displayName |-> "High Priority",
               filterDefinition |->
                  <<Entry("name", Def(JStr(Type.FREETEXT), ModStr(Modality.Contains),
                                      Arr(<<JStr(Text.ak)>>)))>>]>>],
     sales_report |->
        [pageIdentifier |-> "sales_report",
         title |-> "Sales Report",
         subtitle |-> "Weekly sales performance metrics",
         datasetId |-> "relata_schema",
         tableId |-> "vsg",
         savedFilters |->
            <<[identifier |-> "top_performers",
               displayName |-> "Top Performers",
               filterDefinition |->
                  <<Entry("version", Def(JStr(Type.FREETEXT), ModAbsent,
                                         Arr(<<JStr(Text.PUBLISHED)>>))),
                    Entry("owner_project_id",
                          Def(JStr(Type.FREETEXT), ModArr(<<JStr(Modality.is_not_empty)>>),
                              NotArr))>>]>>]]

\* Keys every plain object inherits from Object.prototype: a lookup
\* pageDefinitions[key] finds a truthy value that is no page configuration.
InheritedKeys == {"constructor", "toString", "__proto__"}

\* What a lookup of an inherited key yields: no datasetId, tableId or
\* savedFilters property.
InheritedValue ==
    [pageIdentifier |-> "undefined", title |-> "undefined", subtitle |-> "undefined",
     datasetId |-> "undefined", tableId |-> "undefined", savedFilters |-> <<>>]

NoConfiguration ==
    [pageIdentifier |-> "null", title |-> "null", subtitle |-> "null",
     datasetId |-> "null", tableId |-> "null", savedFilters |-> <<>>]

\* Variant: an unknown identifier falls back to the first page.
getPageConfiguration_Fallback(pageIdentifier) ==
    IF pageIdentifier \in DOMAIN pageDefinitions THEN pageDefinitions[pageIdentifier]
    ELSE pageDefinitions.leads_view

\* pageDefinitions[pageIdentifier] || null
getPageConfiguration(pageIdentifier) ==
    IF pageIdentifier \in DOMAIN pageDefinitions THEN pageDefinitions[pageIdentifier]
    ELSE IF pageIdentifier \in InheritedKeys THEN InheritedValue
    ELSE NoConfiguration

(***************************************************************************)
(* The store: table schemas and rows, and how it evaluates a fragment      *)
(***************************************************************************)
Field(name, type) == [name |-> name, type |-> type]
JStruct == [t |-> "struct", s |-> <<>>, n |-> 0, b |-> FALSE]

ActivityFields ==
    <<Field("name", Type.STRING_), Field("status", Type.STRING_), Field("meta", Type.RECORD)>>

ActivityRow(name, status) == [name |-> name, status |-> status, meta |-> JStruct]

SmallActivityRows ==
    <<ActivityRow(JStr(Text.Akash), JStr(Text.active)),
      ActivityRow(JStr(Text.bob), JStr(Text.pending)),
      ActivityRow(JNull, JStr(Text.active)),
      ActivityRow(JStr(Text.ak), JNull)>>

\* A table whose name column has more distinct values than the LIST
\* threshold: names u1..u21, u1..u10 with 11, 10, .., 2 rows, the rest one.
WideDistinct == 21
WideCount(i) == IF i <= 10 THEN 12 - i ELSE 1
\* Rows of names 1..i together.
RECURSIVE WideRowsUpTo(_)
WideRowsUpTo(i) == IF i = 0 THEN 0 ELSE WideRowsUpTo(i - 1) + WideCount(i)
\* The name the k-th row carries.
WideNameAt(k) ==
    CHOOSE i \in 1..WideDistinct : WideRowsUpTo(i - 1) < k /\ k <= WideRowsUpTo(i)
WideActivityRows ==
    [k \in 1..WideRowsUpTo(WideDistinct) |->
        ActivityRow(JStr(<<"u">> \o NatToStr(WideNameAt(k))),
                    JStr(IF k % 2 = 1 THEN Text.active ELSE Text.pending))]

VsgRows ==
    <<[version |-> JStr(Text.PUBLISHED), owner_project_id |-> JStr(Text.p1)],
      [version |-> JStr(Text.DRAFT), owner_project_id |-> JNull],
      [version |-> JStr(Text.PUBLISHED), owner_project_id |-> JStr(<<>>)]>>

\* A vsg table with a column of every kind generateFilterConfig tells
\* apart; its note column holds no value at all.
TypedVsgFields ==
    <<Field("version", Type.STRING_),
      Field("is_public", Type.BOOL),
      Field("score", Type.INT64),
      Field("created", Type.TIMESTAMP),
      Field("location", <<"G","E","O","G","R","A","P","H","Y">>),
      Field("note", Type.STRING_),
      Field("payload", Type.RECORD),
      Field("owner_project_id", Type.STRING_)>>

TypedVsgRows ==
    [i \in 1..Len(VsgRows) |->
        [version |-> VsgRows[i].version,
         is_public |-> IF i = 1 THEN JBool(TRUE) ELSE IF i = 2 THEN JBool(FALSE) ELSE JNull,
         score |-> IF i = 3 THEN JNull ELSE JNum(i),
         created |-> JStr(Text.date),
         location |-> JStr(Text.abc),
         note |-> JNull,
         payload |-> JStruct,
         owner_project_id |-> VsgRows[i].owner_project_id]]

\* The store contents considered.  In "small" the vsg table has lost the
\* owner_project_id column the top_performers saved filter names.
StoreVariants == {"small", "wide"}

TableFields(variant, tableId) ==
    IF tableId = "activity" THEN ActivityFields
    ELSE IF variant = "small" THEN <<Field("version", Type.STRING_)>>
    ELSE IF variant = "typed" THEN TypedVsgFields
    ELSE <<Field("version", Type.STRING_), Field("owner_project_id", Type.STRING_)>>

TableRows(variant, tableId) ==
    IF tableId = "activity"
    THEN IF variant = "small" THEN SmallActivityRows ELSE WideActivityRows
    ELSE IF variant = "small"
         THEN [i \in 1..Len(VsgRows) |-> [version |-> VsgRows[i].version]]
         ELSE IF variant = "typed" THEN TypedVsgRows
         ELSE VsgRows

\* Code-point order of the characters used, for ORDER BY on strings.
CharOrder ==
    <<" ", "%", "'", "-">> \o Digits \o UpperLetters \o <<"\\", "_">> \o LowerLetters
CharRank(c) == LetterIndex(CharOrder, c)

RECURSIVE StrLess(_, _)
StrLess(a, b) ==
    IF b = <<>> THEN FALSE
    ELSE IF a = <<>> THEN TRUE
    ELSE IF a[1] = b[1] THEN StrLess(Tail(a), Tail(b))
    ELSE CharRank(a[1]) < CharRank(b[1])

\* The content of a quoted SQL string literal; a quote inside the quotes
\* ends the literal early and a backslash starts an escape sequence (before
\* the closing quote it leaves the literal open), which the store rejects as
\* a syntax error.
IsQuoted(text) == Len(text) >= 2 /\ text[1] = "'" /\ text[Len(text)] = "'"
LiteralContent(text) == SubSeq(text, 2, Len(text) - 1)
ValidLiteral(text) ==
    \/ text = Sql.Null
    \/ /\ IsQuoted(text)
       /\ \A i \in 1..Len(LiteralContent(text)) :
             LiteralContent(text)[i] \notin {"'", "\\"}

\* text LIKE pattern: % matches any run of characters, _ any one.
RECURSIVE LikeMatch(_, _)
LikeMatch(text, pattern) ==
    IF pattern = <<>> THEN text = <<>>
    ELSE IF pattern[1] = "%"
        THEN \/ LikeMatch(text, Tail(pattern))
             \/ text # <<>> /\ LikeMatch(Tail(text), pattern)
    ELSE /\ text # <<>>
         /\ pattern[1] = "_" \/ pattern[1] = text[1]
         /\ LikeMatch(Tail(text), Tail(pattern))

\* CAST(cell AS STRING) of a non-null scalar cell.
CastAsString(cell) == String(cell)

IsNullCell(cell) == cell.t = "null"

FieldType(fields, col) ==
    LET i == CHOOSE i \in 1..Len(fields) : fields[i].name = col
    IN toUpperCase(fields[i].type)

HasColumn(fields, col) == \E i \in 1..Len(fields) : fields[i].name = col

IsNumberText(text) ==
    \/ AllDigits(text)
    \/ Len(text) > 1 /\ text[1] = "-" /\ AllDigits(Tail(text))

\* Whether the store accepts the fragment against this schema: the column
\* exists, the operands are well-formed and the comparison is typed.
Executable(pred, fields) ==
    /\ HasColumn(fields, pred.col)
    /\ LET type == FieldType(fields, pred.col) IN
       CASE pred.op \in {"EMPTY", "NOT_EMPTY"} -> type # Type.RECORD
         [] pred.op = "IN" ->
                /\ type = Type.STRING_
                /\ \A i \in 1..Len(pred.args) : ValidLiteral(pred.args[i])
         [] pred.op = "LOWER_TEXT" ->
                type # Type.RECORD /\ ValidLiteral(pred.args[1])
         [] pred.op = "BOOL_EQ" -> type \in {Type.BOOL, Type.BOOLEAN}
         [] pred.op = "NUM" ->
                /\ type \in {Type.INT64, Type.NUMERIC}
                /\ \A i \in 1..Len(pred.args) : IsNumberText(pred.args[i])
         [] OTHER -> FALSE

IsEmptyCell(cell) == IsNullCell(cell) \/ CastAsString(cell) = <<>>

\* Whether an executable fragment evaluates to TRUE on the row (a NULL
\* result keeps the row out, as FALSE does).
Matches(pred, row) ==
    LET cell == row[pred.col] IN
    CASE pred.op = "EMPTY" -> IsEmptyCell(cell)
      [] pred.op = "NOT_EMPTY" -> ~IsEmptyCell(cell)
      [] pred.op = "IN" ->
            /\ ~IsNullCell(cell)
            /\ \E i \in 1..Len(pred.args) :
                  /\ pred.args[i] # Sql.Null
                  /\ cell.s = LiteralContent(pred.args[i])
      [] pred.op = "LOWER_TEXT" ->
            /\ ~IsNullCell(cell)
            /\ pred.args[1] # Sql.Null
            /\ LET text == toLowerCase(CastAsString(cell))
                   rhs == toLowerCase(LiteralContent(pred.args[1]))
               IN IF pred.cmp = "=" THEN text = rhs ELSE LikeMatch(text, rhs)
      [] pred.op = "BOOL_EQ" ->
            cell.t = "bool" /\ cell.b = (pred.args[1] = Sql.True)
      [] pred.op = "NUM" ->
            /\ cell.t = "num"
            /\ LET a == Number(JStr(pred.args[1])).n IN
               CASE pred.cmp = ">" -> cell.n > a
                 [] pred.cmp = "<" -> cell.n < a
                 [] pred.cmp = "BETWEEN" ->
                        a <= cell.n /\ cell.n <= Number(JStr(pred.args[2])).n
                 [] OTHER -> cell.n = a

\* The calendar the store computes dates in: a date is a day number, and
\* these are the first days of seven consecutive months (December to June
\* of a common year).
MonthStarts == <<0, 31, 62, 90, 121, 151, 182>>

\* The value of a date expression when CURRENT_DATE() is today. Adding
\* months keeps the day of the month, or the month's last day if shorter.
EvalDate(expr, today) ==
    LET MonthOf(d) == CHOOSE i \in 1..(Len(MonthStarts) - 1) :
                          MonthStarts[i] <= d /\ d < MonthStarts[i + 1]
        AddMonths(d, n) ==
            LET m == MonthOf(d) + n
                day == MonthStarts[m] + (d - MonthStarts[MonthOf(d)])
            IN IF day < MonthStarts[m + 1] THEN day ELSE MonthStarts[m + 1] - 1
        Shift(d, n, unit) == IF unit = "DAY" THEN d + n ELSE AddMonths(d, n)
        Apply[steps \in Seq(STRING), d \in Int] ==
            IF steps = <<>> THEN d
            ELSE IF steps[1] = "DATE_TRUNC"
                THEN Apply[Tail(steps), MonthStarts[MonthOf(d)]]
            ELSE LET n == DigitsValue(<<steps[2]>>)
                     signed == IF steps[1] = "DATE_SUB" THEN 0 - n ELSE n
                 IN Apply[SubSeq(steps, 4, Len(steps)), Shift(d, signed, steps[3])]
    IN Apply[Tail(expr), today]

\* A variant whose BETWEEN leaves out its first operand's day.
MatchingDays_OpenStart(pred, today) ==
    IF pred.cmp = "=" THEN {EvalDate(pred.args[1], today)}
    ELSE (EvalDate(pred.args[1], today) + 1)..EvalDate(pred.args[2], today)

\* The days DATE(column) may be for a relative-date fragment to be TRUE on
\* the row, when CURRENT_DATE() is today: the operand of =, or every day
\* from the first to the second operand of BETWEEN.
MatchingDays(pred, today) ==
    IF pred.cmp = "=" THEN {EvalDate(pred.args[1], today)}
    ELSE EvalDate(pred.args[1], today)..EvalDate(pred.args[2], today)

\* WHERE f1 AND f2 AND ..: the rows every fragment accepts, in table order.
SelectRows(rows, where) ==
    SelectSeq(rows, LAMBDA row : \A i \in 1..Len(where) : Matches(where[i], row))

\* LIMIT limit OFFSET offset
Page(rows, limit, offset) ==
    SubSeq(rows, offset + 1, IF offset + limit < Len(rows) THEN offset + limit ELSE Len(rows))

(***************************************************************************)
(* Option discovery (generateFilterConfig)                                 *)
(***************************************************************************)
ListThreshold == 20
ListLimit == 20
TopLimit == 10

ConfigEntry(columnName, filterType, options) ==
    [columnName |-> columnName, filterType |-> filterType, options |-> options]

EmptyNotEmptyOptions == <<JStr(Token.Empty), JStr(Token.Not_Empty)>>

\* Variant: the pseudo-options are appended to every option list.
WithFallback_Appends(options) == options \o EmptyNotEmptyOptions

\* if (!options || options.length === 0) options = ['Empty', 'Not Empty']
WithFallback(options) == IF Len(options) = 0 THEN EmptyNotEmptyOptions ELSE options

DateOptions == [i \in 1..Len(RelativeTokens) |-> JStr(RelativeTokens[i])]
BooleanOptions == <<JBool(TRUE), JBool(FALSE)>>
NumericOptions == <<JStr(Token.top10), JStr(Token.bottom10)>>

NumericFieldTypes ==
    {Type.INT64, Type.NUMERIC, <<"B","I","G","N","U","M","E","R","I","C">>,
     <<"F","L","O","A","T","6","4">>}

\* The non-null values of a column, cast to text.
ColumnTexts(rows, col) ==
    {CastAsString(rows[i][col]) : i \in {j \in 1..Len(rows) : ~IsNullCell(rows[j][col])}}

\* SELECT APPROX_COUNT_DISTINCT(col)
ApproxCountDistinct(rows, col) == Cardinality(ColumnTexts(rows, col))

MinStr(set) == CHOOSE a \in set : \A b \in set : a = b \/ StrLess(a, b)

\* Variant: ORDER BY v DESC.
RECURSIVE Ascending_Reversed(_, _)
Ascending_Reversed(set, n) ==
    IF set = {} \/ n = 0 THEN <<>>
    ELSE LET m == CHOOSE a \in set : \A b \in set : a = b \/ StrLess(b, a)
         IN <<m>> \o Ascending_Reversed(set \ {m}, n - 1)

RECURSIVE Ascending(_, _)
Ascending(set, n) ==
    IF set = {} \/ n = 0 THEN <<>>
    ELSE <<MinStr(set)>> \o Ascending(set \ {MinStr(set)}, n - 1)

\* SELECT DISTINCT CAST(col AS STRING) .. IS NOT NULL ORDER BY v LIMIT 20
DistinctValues(rows, col) ==
    LET vals == Ascending(ColumnTexts(rows, col), ListLimit)
    IN [i \in 1..Len(vals) |-> JStr(vals[i])]

Frequency(rows, col, v) ==
    Cardinality({i \in 1..Len(rows) :
                    ~IsNullCell(rows[i][col]) /\ CastAsString(rows[i][col]) = v})

\* The most frequent value of set under the counts c; among equally
\* frequent ones the store may return any, here the least.
MostFrequent(c, set) ==
    MinStr({a \in set : \A b \in set : c[a] >= c[b]})

RECURSIVE Descending(_, _, _)
Descending(c, set, n) ==
    IF set = {} \/ n = 0 THEN <<>>
    ELSE LET m == MostFrequent(c, set)
         IN <<m>> \o Descending(c, set \ {m}, n - 1)

\* SELECT CAST(col AS STRING) v, COUNT(1) c .. GROUP BY v ORDER BY c DESC LIMIT 10
TopValues(rows, col) ==
    LET c == [v \in ColumnTexts(rows, col) |-> Frequency(rows, col, v)]
        vals == Descending(c, DOMAIN c, TopLimit)
    IN [i \in 1..Len(vals) |-> JStr(vals[i])]

\* The entry of a column that needs no query, by declared type.
TypeDrivenEntry(f) ==
    LET type == toUpperCase(f.type) IN
    IF type \in {Type.DATE, Type.DATETIME, Type.TIMESTAMP}
        THEN ConfigEntry(f.name, Type.DATE, WithFallback(DateOptions))
    ELSE IF type \in {Type.BOOL, Type.BOOLEAN}
        THEN ConfigEntry(f.name, Type.BOOLEAN, WithFallback(BooleanOptions))
    ELSE IF type \in NumericFieldTypes
        THEN ConfigEntry(f.name, Type.NUMERIC, WithFallback(NumericOptions))
    ELSE ConfigEntry(f.name, Type.FREETEXT, WithFallback(<<>>))

\* The options generateFilterConfigFromSchema gives DATE columns.
SchemaDateOptions == SubSeq(DateOptions, 1, 5)

\* generateFilterConfigFromSchema: the entries the schema alone decides.
RECURSIVE generateFilterConfigFromSchema(_)
generateFilterConfigFromSchema(schemaFields) ==
    IF schemaFields = <<>> THEN <<>>
    ELSE LET f == schemaFields[1]
             type == toUpperCase(f.type)
             entry ==
                IF type \in {Type.DATE, Type.DATETIME, Type.TIMESTAMP}
                    THEN ConfigEntry(f.name, Type.DATE, WithFallback(SchemaDateOptions))
                ELSE IF type \in {Type.BOOL, Type.BOOLEAN}
                    THEN ConfigEntry(f.name, Type.BOOLEAN, WithFallback(BooleanOptions))
                ELSE IF type \in NumericFieldTypes
                    THEN ConfigEntry(f.name, Type.NUMERIC, WithFallback(NumericOptions))
                ELSE ConfigEntry(f.name, Type.FREETEXT, WithFallback(<<>>))
         IN (IF f.type = Type.RECORD THEN <<>> ELSE <<entry>>)
            \o generateFilterConfigFromSchema(Tail(schemaFields))

\* columnNames: fields.filter(f => f.type !== 'RECORD').map(f => f.name)
RECURSIVE columnNames(_)
columnNames(fs) ==
    IF fs = <<>> THEN <<>>
    ELSE (IF fs[1].type # Type.RECORD THEN <<fs[1].name>> ELSE <<>>) \o columnNames(Tail(fs))

\* formatTableHeaders: one header per column name, keyed by it (the
\* display name is presentation and is not kept).
formatTableHeaders(names) == [i \in 1..Len(names) |-> [key |-> names[i]]]

(***************************************************************************)
(* WHERE construction and pagination arithmetic of the handler             *)
(***************************************************************************)
\* Variant: the column-existence guard is missing.
KnownColumn_Always(fields, col) == TRUE

\* fieldTypeByName.has(col)
KnownColumn(fields, col) == HasColumn(fields, col)

\* fieldTypeByName.get(col): the upper-cased declared type, or undefined.
fieldTypeByName(fields, col) ==
    IF HasColumn(fields, col) THEN FieldType(fields, col) ELSE <<>>

\* if (pred) whereClauses.push(pred)
PushIf(pred) == IF pred # NullPred THEN <<pred>> ELSE <<>>

RECURSIVE SavedClauses(_, _)
SavedClauses(entries, fields) ==
    IF entries = <<>> THEN <<>>
    ELSE (IF KnownColumn(fields, entries[1].col)
          THEN PushIf(buildPredicateFromDef(entries[1].col, entries[1].def))
          ELSE <<>>)
         \o SavedClauses(Tail(entries), fields)

RECURSIVE UserClauses(_, _)
UserClauses(entries, fields) ==
    IF entries = <<>> THEN <<>>
    ELSE (IF KnownColumn(fields, entries[1].col)
          THEN PushIf(buildPredicateFromUser(entries[1].col, entries[1].def,
                                             fieldTypeByName(fields, entries[1].col)))
          ELSE <<>>)
         \o UserClauses(Tail(entries), fields)

\* Variant: a user definition replaces the saved one on the same column.
BuildWhereClauses_UserOverrides(savedFilterDefinition, userFilters, fields) ==
    SavedClauses(
        SelectSeq(savedFilterDefinition,
                  LAMBDA e : \A i \in 1..Len(userFilters) : userFilters[i].col # e.col),
        fields)
    \o UserClauses(userFilters, fields)

\* whereClauses after both loops: saved fragments, then user fragments.
BuildWhereClauses(savedFilterDefinition, userFilters, fields) ==
    SavedClauses(savedFilterDefinition, fields) \o UserClauses(userFilters, fields)

JsNullId == "<null>"

\* Variant: the page's first saved filter is applied whatever was requested.
FindSavedFilter_First(cfg, savedFilterIdentifier) ==
    IF cfg.savedFilters = <<>> THEN <<>> ELSE <<cfg.savedFilters[1]>>

\* (cfg.savedFilters || []).find(sf => sf.identifier === savedFilterIdentifier)
FindSavedFilter(cfg, savedFilterIdentifier) ==
    LET hits == {i \in 1..Len(cfg.savedFilters) :
                    cfg.savedFilters[i].identifier = savedFilterIdentifier}
    IN IF hits = {} THEN <<>>
       ELSE <<cfg.savedFilters[CHOOSE i \in hits : \A j \in hits : i <= j]>>

\* savedFilter && savedFilter.filterDefinition ? savedFilter.filterDefinition : {}
SavedFilterDefinition(cfg, savedFilterIdentifier) ==
    LET found == FindSavedFilter(cfg, savedFilterIdentifier)
    IN IF found = <<>> THEN <<>> ELSE found[1].filterDefinition

MaxPageSize == 1000
DefaultPageSize == 10
DefaultPage == 1

Max(a, b) == IF a >= b THEN a ELSE b
Min(a, b) == IF a <= b THEN a ELSE b

\* v || d for a number-or-undefined v
OrDefault(v, d) == IF Truthy(v) THEN v.n ELSE d

\* Math.max(1, Math.min(1000, pagination.pageSize || 10))
Limit(pagination) == Max(1, Min(MaxPageSize, OrDefault(pagination.pageSize, DefaultPageSize)))

\* Math.max(0, ((pagination.page || 1) - 1) * limit)
Offset(pagination, limit) == Max(0, (OrDefault(pagination.page, DefaultPage) - 1) * limit)

\* pagination.page || 1
CurrentPage(pagination) == OrDefault(pagination.page, DefaultPage)

\* Math.ceil(a / b) for a >= 0, b > 0
Ceil(a, b) == (a + b - 1) \div b

\* Variant: no floor of one page.
TotalPages_NoFloor(totalRecords, limit) == Ceil(totalRecords, limit)

\* Math.max(1, Math.ceil(totalRecords / limit))
TotalPages(totalRecords, limit) == Max(1, Ceil(totalRecords, limit))

(***************************************************************************)
(* Responses                                                               *)
(***************************************************************************)
NoPagination == [currentPage |-> 0, pageSize |-> 0, totalRecords |-> 0, totalPages |-> 0]

\* No response sent yet.
NoResponse ==
    [status |-> 0, keys |-> {}, ok |-> FALSE, error |-> "",
     tableHeaders |-> <<>>, data |-> <<>>, filterConfig |-> <<>>,
     pagination |-> NoPagination, appliedSavedFilter |-> JsNullId]

\* res.status(status).json({ ok: false, error })
ErrorResponse(status, error) ==
    [NoResponse EXCEPT !.status = status, !.keys = {"ok", "error"}, !.error = error]

\* res.json(responsePayload)
PageResponse(headers, data, config, pagination, applied) ==
    [status |-> 200,
     keys |-> {"pageDetails", "tableHeaders", "data", "filterConfig", "savedFilters",
               "pagination", "appliedSavedFilter"},
     ok |-> FALSE, error |-> "",
     tableHeaders |-> headers, data |-> data, filterConfig |-> config,
     pagination |-> pagination, appliedSavedFilter |-> applied]

(***************************************************************************)
(* State of the server handling POST /api/page-data                        *)
(***************************************************************************)
VARIABLES
    bigquery,       \* TRUE when the client was constructed, FALSE for null
    store,          \* which store contents the tables hold
    pc,             \* where the handler is: not started, awaiting a store call, done
    req,            \* the destructured request body
    cfg,            \* getPageConfiguration(pageIdentifier)
    fields,         \* metadata.schema.fields
    disc,           \* generateFilterConfig's loop position
    filterConfig,   \* config built by generateFilterConfig
    whereClauses,   \* fragments pushed by the two loops
    limit,
    offset,
    rows,           \* rows of the row query
    res,            \* the response sent for req
    storeCalls,     \* store calls issued for req, in order
    failed,         \* the store calls among them that failed
    compiled,       \* one run of a predicate builder on its own: inputs and result
    ui,             \* the page script's state: its variables, its requests in flight, what it shows
    calls,          \* the handler's locals for each of several requests handled at once
    discovered      \* the filter config of each table of the store, once found

vars ==
    <<bigquery, store, pc, req, cfg, fields, disc, filterConfig, whereClauses,
      limit, offset, rows, res, storeCalls, failed, compiled, ui, calls,
      discovered>>

(***************************************************************************)
(* Bounds and request inputs                                               *)
(***************************************************************************)
\* Requested page numbers range over -1..MaxPage.
MaxPage == 2
\* At most this many store calls fail while one request is handled.
MaxFailures == 1

PageIdentifiers == {"leads_view", "sales_report", "no_such_page", "constructor"}
SavedFilterIdentifiers == {JsNullId, "high_priority_leads", "top_performers"}

PageValues == {JUndef} \cup {JNum(n) : n \in (0 - 1)..MaxPage}
PageSizeValues == {JUndef, JNum(-1), JNum(0), JNum(2), JNum(5000)}

\* The pagination property of a body: absent, or { page, pageSize }.
PaginationInputs ==
    {[present |-> FALSE, page |-> JUndef, pageSize |-> JUndef]}
    \cup {[present |-> TRUE, page |-> p, pageSize |-> ps] :
            p \in PageValues, ps \in PageSizeValues}

UD_ListPending == Def(JStr(Type.LIST), ModAbsent, Arr(<<JStr(Text.pending)>>))
UD_ExactBob == Def(JStr(Type.FREETEXT), ModStr(Modality.exact), Arr(<<JStr(Text.bob)>>))
UD_Untyped == Def(JUndef, ModAbsent, Arr(<<JStr(Text.ak)>>))
UD_EmptyToken == Def(JStr(Type.FREETEXT), ModAbsent, Arr(<<JStr(Token.Empty)>>))
UD_NoValues == Def(JStr(Type.LIST), ModAbsent, Arr(<<>>))

\* The userFilters objects requests carry.
UserFilterInputs ==
    {<<>>,
     <<Entry("name", UD_ExactBob)>>,
     <<Entry("name", UD_Untyped)>>,
     <<Entry("name", UD_EmptyToken)>>,
     <<Entry("status", UD_ListPending)>>,
     <<Entry("status", UD_NoValues)>>,
     <<Entry("meta", UD_Untyped)>>,
     <<Entry("ghost", UD_ListPending)>>,
     <<Entry("version", UD_Untyped)>>,
     <<Entry("name", UD_ExactBob), Entry("status", UD_ListPending)>>,
     <<Entry("ghost", UD_Untyped), Entry("status", UD_ListPending)>>,
     <<Entry("status", UD_NoValues), Entry("name", UD_Untyped)>>,
     <<Entry("owner_project_id", UD_EmptyToken), Entry("version", UD_Untyped)>>}

DefaultPagination == [page |-> JNum(DefaultPage), pageSize |-> JNum(DefaultPageSize)]

\* const { pageIdentifier, savedFilterIdentifier = null, userFilters = {},
\*         pagination = { page: 1, pageSize: 10 } } = req.body
Destructure(pageIdentifier, savedFilterIdentifier, userFilters, pagination) ==
    [pageIdentifier |-> pageIdentifier,
     savedFilterIdentifier |-> savedFilterIdentifier,
     userFilters |-> userFilters,
     pagination |-> IF pagination.present
                    THEN [page |-> pagination.page, pageSize |-> pagination.pageSize]
                    ELSE DefaultPagination]

NoRequest == Destructure("", JsNullId, <<>>, [present |-> FALSE, page |-> JUndef, pageSize |-> JUndef])

DiscIdle == [i |-> 0, phase |-> "column", distinctCount |-> 0]

\* The page script before it has run.
NoUi == [loaded |-> FALSE]

NotCompiled ==
    [phase |-> "start", provenance |-> "", column |-> "",
     def |-> Def(JUndef, ModAbsent, NotArr), fieldType |-> <<>>, pred |-> NullPred]

Init ==
    /\ bigquery \in BOOLEAN
    /\ store \in StoreVariants
    /\ pc = "start"
    /\ req = NoRequest
    /\ cfg = NoConfiguration
    /\ fields = <<>>
    /\ disc = DiscIdle
    /\ filterConfig = <<>>
    /\ whereClauses = <<>>
    /\ limit = 0
    /\ offset = 0
    /\ rows = <<>>
    /\ res = NoResponse
    /\ storeCalls = <<>>
    /\ failed = <<>>
    /\ compiled = NotCompiled
    /\ discovered = <<>>
    /\ ui = NoUi
    /\ calls = <<>>

\* A store call, and the column it is about (if any).
Call(call, col) == [call |-> call, col |-> col]

\* A store call may fail for reasons of the store's own.
MayFail == Len(failed) < MaxFailures

\* The handler's locals are fresh for every request.
FreshLocals ==
    /\ fields' = <<>>
    /\ disc' = DiscIdle
    /\ filterConfig' = <<>>
    /\ whereClauses' = <<>>
    /\ limit' = 0
    /\ offset' = 0
    /\ rows' = <<>>
    /\ failed' = <<>>

\* The handler up to its first await: catalog lookup, the two guards, then
\* table.getMetadata() is issued.  bigquery.dataset(undefined) throws inside
\* the try block before any call is made (the client rejects a dataset id
\* that is no string), which the catch turns into a 500.
ReceiveRequest ==
    /\ pc = "start"
    /\ \E pageIdentifier \in PageIdentifiers,
          savedFilterIdentifier \in SavedFilterIdentifiers,
          userFilters \in UserFilterInputs,
          pagination \in PaginationInputs :
        LET c == getPageConfiguration(pageIdentifier) IN
        /\ req' = Destructure(pageIdentifier, savedFilterIdentifier, userFilters, pagination)
        /\ cfg' = c
        /\ FreshLocals
        /\ IF c = NoConfiguration
           THEN /\ res' = ErrorResponse(400, "Invalid pageIdentifier")
                /\ pc' = "done"
                /\ storeCalls' = <<>>
           ELSE IF ~bigquery
           THEN /\ res' = ErrorResponse(500, "BigQuery client not initialized")
                /\ pc' = "done"
                /\ storeCalls' = <<>>
           ELSE IF c.datasetId = "undefined"
           THEN /\ res' = ErrorResponse(500, "TypeError")
                /\ pc' = "done"
                /\ storeCalls' = <<>>
           ELSE /\ res' = NoResponse
                /\ pc' = "getMetadata"
                /\ storeCalls' = <<Call("getMetadata", "")>>
    /\ UNCHANGED <<discovered, ui, calls, compiled, bigquery, store>>

\* Variant: an error is answered with an empty page instead of an error.
Catch_EmptyPage(error) ==
    /\ res' = PageResponse(<<>>, <<>>, <<>>,
                [currentPage |-> 1, pageSize |-> 1, totalRecords |-> 0, totalPages |-> 1],
                JsNullId)
    /\ pc' = "done"
    /\ failed' = Append(failed, storeCalls[Len(storeCalls)])

\* catch (error) { return res.status(500).json({ ok: false, error: String(error) }) }
Catch(error) ==
    /\ res' = ErrorResponse(500, error)
    /\ pc' = "done"
    /\ failed' = Append(failed, storeCalls[Len(storeCalls)])

GetMetadataFails ==
    /\ pc = "getMetadata"
    /\ MayFail
    /\ Catch("getMetadata failed")
    /\ UNCHANGED <<discovered, ui, calls, compiled, bigquery, store, req, cfg, fields, disc, filterConfig, whereClauses,
                   limit, offset, rows, storeCalls>>

\* The schema arrives; generateFilterConfig starts its loop.
GetMetadataReturns ==
    /\ pc = "getMetadata"
    /\ fields' = TableFields(store, cfg.tableId)
    /\ disc' = [i |-> 1, phase |-> "column", distinctCount |-> 0]
    /\ pc' = "discover"
    /\ UNCHANGED <<discovered, ui, calls, compiled, bigquery, store, req, cfg, filterConfig, whereClauses,
                   limit, offset, rows, res, storeCalls, failed>>

NextColumn == [i |-> disc.i + 1, phase |-> "column", distinctCount |-> 0]

\* One turn of generateFilterConfig's loop, up to its await if it has one.
DiscoverColumn ==
    /\ pc = "discover"
    /\ disc.phase = "column"
    /\ disc.i <= Len(fields)
    /\ LET f == fields[disc.i] IN
       IF f.type = Type.RECORD
       THEN /\ disc' = NextColumn
            /\ UNCHANGED <<filterConfig, storeCalls>>
       ELSE IF toUpperCase(f.type) = Type.STRING_
       THEN /\ disc' = [disc EXCEPT !.phase = "count"]
            /\ storeCalls' = Append(storeCalls, Call("approxCount", f.name))
            /\ UNCHANGED filterConfig
       ELSE /\ filterConfig' = Append(filterConfig, TypeDrivenEntry(f))
            /\ disc' = NextColumn
            /\ UNCHANGED storeCalls
    /\ UNCHANGED <<discovered, ui, calls, compiled, bigquery, store, pc, req, cfg, fields, whereClauses,
                   limit, offset, rows, res, failed>>

DiscoveryUnchanged ==
    UNCHANGED <<discovered, ui, calls, compiled, bigquery, store, pc, req, cfg, fields, whereClauses,
                limit, offset, rows, res>>

\* The count query of a STRING column fails: the catch keeps FREETEXT and
\* the empty options, which get the fallback.
ApproxCountFails ==
    /\ pc = "discover"
    /\ disc.phase = "count"
    /\ MayFail
    /\ filterConfig' = Append(filterConfig,
            ConfigEntry(fields[disc.i].name, Type.FREETEXT, WithFallback(<<>>)))
    /\ disc' = NextColumn
    /\ failed' = Append(failed, storeCalls[Len(storeCalls)])
    /\ UNCHANGED storeCalls
    /\ DiscoveryUnchanged

\* The count arrives and decides between the list and the top query.
ApproxCountReturns ==
    /\ pc = "discover"
    /\ disc.phase = "count"
    /\ LET distinctCount == ApproxCountDistinct(TableRows(store, cfg.tableId),
                                                fields[disc.i].name)
       IN /\ disc' = [disc EXCEPT !.distinctCount = distinctCount,
                                  !.phase = IF distinctCount <= ListThreshold
                                            THEN "list" ELSE "top"]
          /\ storeCalls' = Append(storeCalls,
                Call(IF distinctCount <= ListThreshold THEN "distinctValues" ELSE "topValues",
                     fields[disc.i].name))
    /\ UNCHANGED <<filterConfig, failed>>
    /\ DiscoveryUnchanged

\* filterType was set before the query, so a failed query leaves it.
ValuesQueryFails ==
    /\ pc = "discover"
    /\ disc.phase \in {"list", "top"}
    /\ MayFail
    /\ filterConfig' = Append(filterConfig,
            ConfigEntry(fields[disc.i].name,
                        IF disc.phase = "list" THEN Type.LIST ELSE Type.FREETEXT,
                        WithFallback(<<>>)))
    /\ disc' = NextColumn
    /\ failed' = Append(failed, storeCalls[Len(storeCalls)])
    /\ UNCHANGED storeCalls
    /\ DiscoveryUnchanged

DistinctValuesReturns ==
    /\ pc = "discover"
    /\ disc.phase = "list"
    /\ filterConfig' = Append(filterConfig,
            ConfigEntry(fields[disc.i].name, Type.LIST,
                        WithFallback(DistinctValues(TableRows(store, cfg.tableId),
                                                    fields[disc.i].name))))
    /\ disc' = NextColumn
    /\ UNCHANGED <<storeCalls, failed>>
    /\ DiscoveryUnchanged

TopValuesReturns ==
    /\ pc = "discover"
    /\ disc.phase = "top"
    /\ filterConfig' = Append(filterConfig,
            ConfigEntry(fields[disc.i].name, Type.FREETEXT,
                        WithFallback(TopValues(TableRows(store, cfg.tableId),
                                               fields[disc.i].name))))
    /\ disc' = NextColumn
    /\ UNCHANGED <<storeCalls, failed>>
    /\ DiscoveryUnchanged

\* generateFilterConfig has returned: the WHERE clause, limit and offset
\* are computed and the row query is issued.
IssueRowQuery ==
    /\ pc = "discover"
    /\ disc.phase = "column"
    /\ disc.i > Len(fields)
    /\ whereClauses' = BuildWhereClauses(
            SavedFilterDefinition(cfg, req.savedFilterIdentifier), req.userFilters, fields)
    /\ limit' = Limit(req.pagination)
    /\ offset' = Offset(req.pagination, Limit(req.pagination))
    /\ storeCalls' = Append(storeCalls, Call("rowQuery", ""))
    /\ pc' = "rowQuery"
    /\ UNCHANGED <<discovered, ui, calls, compiled, bigquery, store, req, cfg, fields, disc, filterConfig, rows, res, failed>>

QueryExecutable == \A i \in 1..Len(whereClauses) : Executable(whereClauses[i], fields)

\* Variant: a failed row query is issued again.
RowQueryFails_Retried ==
    /\ pc = "rowQuery"
    /\ MayFail
    /\ failed' = Append(failed, storeCalls[Len(storeCalls)])
    /\ storeCalls' = Append(storeCalls, Call("rowQuery", ""))
    /\ UNCHANGED <<discovered, ui, calls, compiled, bigquery, store, pc, req, cfg, fields, disc, filterConfig,
                   whereClauses, limit, offset, rows, res>>

\* The row query rejects because the store cannot be reached or gives up.
RowQueryFails ==
    /\ pc = "rowQuery"
    /\ MayFail
    /\ Catch("row query failed")
    /\ UNCHANGED <<discovered, ui, calls, compiled, bigquery, store, req, cfg, fields, disc, filterConfig, whereClauses,
                   limit, offset, rows, storeCalls>>

\* The row query rejects because the store refuses the SQL it was sent.
RowQueryRejected ==
    /\ pc = "rowQuery"
    /\ ~QueryExecutable
    /\ Catch("row query rejected")
    /\ UNCHANGED <<discovered, ui, calls, compiled, bigquery, store, req, cfg, fields, disc, filterConfig, whereClauses,
                   limit, offset, rows, storeCalls>>

\* The rows arrive and the count query is issued.
RowQueryReturns ==
    /\ pc = "rowQuery"
    /\ QueryExecutable
    /\ rows' = Page(SelectRows(TableRows(store, cfg.tableId), whereClauses), limit, offset)
    /\ storeCalls' = Append(storeCalls, Call("countQuery", ""))
    /\ pc' = "countQuery"
    /\ UNCHANGED <<discovered, ui, calls, compiled, bigquery, store, req, cfg, fields, disc, filterConfig, whereClauses,
                   limit, offset, res, failed>>

AppliedSavedFilter ==
    IF FindSavedFilter(cfg, req.savedFilterIdentifier) = <<>> THEN JsNullId
    ELSE FindSavedFilter(cfg, req.savedFilterIdentifier)[1].identifier

\* The payload assembled once totalRecords is known.
Respond(totalRecords) ==
    res' = PageResponse(
              formatTableHeaders(columnNames(fields)),
              rows,
              filterConfig,
              [currentPage |-> CurrentPage(req.pagination),
               pageSize |-> limit,
               totalRecords |-> totalRecords,
               totalPages |-> TotalPages(totalRecords, limit)],
              AppliedSavedFilter)

\* Variant: a failed count query fails the request.
CountQueryFails_Surfaced ==
    /\ pc = "countQuery"
    /\ MayFail
    /\ Catch("count query failed")
    /\ UNCHANGED <<discovered, ui, calls, compiled, bigquery, store, req, cfg, fields, disc, filterConfig, whereClauses,
                   limit, offset, rows, storeCalls>>

\* catch (e) { totalRecords = rows.length }
CountQueryFails ==
    /\ pc = "countQuery"
    /\ MayFail
    /\ Respond(Len(rows))
    /\ failed' = Append(failed, storeCalls[Len(storeCalls)])
    /\ pc' = "done"
    /\ UNCHANGED <<discovered, ui, calls, compiled, bigquery, store, req, cfg, fields, disc, filterConfig, whereClauses,
                   limit, offset, rows, storeCalls>>

\* totalRecords = Number(countRows[0].c) || 0
CountQueryReturns ==
    /\ pc = "countQuery"
    /\ Respond(Len(SelectRows(TableRows(store, cfg.tableId), whereClauses)))
    /\ pc' = "done"
    /\ UNCHANGED <<discovered, ui, calls, compiled, bigquery, store, req, cfg, fields, disc, filterConfig, whereClauses,
                   limit, offset, rows, storeCalls, failed>>

Next ==
    \/ ReceiveRequest
    \/ GetMetadataFails
    \/ GetMetadataReturns
    \/ DiscoverColumn
    \/ ApproxCountFails
    \/ ApproxCountReturns
    \/ ValuesQueryFails
    \/ DistinctValuesReturns
    \/ TopValuesReturns
    \/ IssueRowQuery
    \/ RowQueryFails
    \/ RowQueryRejected
    \/ RowQueryReturns
    \/ CountQueryFails
    \/ CountQueryReturns

Spec == Init /\ [][Next]_vars

(***************************************************************************)
(* The predicate builders on their own                                     *)
(***************************************************************************)

TypeInputs ==
    {JUndef, JStr(Type.LIST), JStr(Text.list), JStr(Type.BOOLEAN), JStr(Type.BOOL), JStr(Type.NUMERIC),
     JStr(Type.DATE), JStr(Type.DATETIME), JStr(Type.TIMESTAMP), JStr(Type.FREETEXT)}

ModalityInputs ==
    {ModAbsent, ModArr(<<>>),
     ModStr(Modality.is_empty), ModStr(Modality.is_not_empty), ModStr(Modality.is_null), ModStr(Modality.not_empty),
     ModArr(<<JStr(Modality.is_not_empty)>>),
     ModStr(Modality.between), ModStr(Modality.greater_than), ModStr(Modality.less_than),
     ModStr(Modality.before), ModStr(Modality.after),
     ModStr(Modality.exact), ModStr(Modality.starts_with), ModStr(Modality.contains), ModStr(Modality.Contains),
     ModArr(<<JStr(Text.CONTAINS)>>)}

ValuesInputs ==
    {NotArr, Arr(<<>>),
     Arr(<<JStr(Token.Empty)>>), Arr(<<JStr(Token.Not_Empty)>>),
     Arr(<<JStr(Text.ak)>>), Arr(<<JStr(Text.active), JStr(Text.pending)>>),
     Arr(<<JStr(<<>>)>>), Arr(<<JStr(Text.abc)>>), Arr(<<JStr(Text.five)>>),
     Arr(<<JNum(3), JNum(7)>>),
     Arr(<<JBool(TRUE)>>), Arr(<<JBool(FALSE)>>), Arr(<<JStr(Text.false)>>),
     Arr(<<JStr(Token.today)>>), Arr(<<JStr(Text.date)>>), Arr(<<JStr(Token.top10)>>),
     Arr(<<JStr(Text.quoted)>>), Arr(<<JStr(Text.slashed)>>),
     Arr(<<JBool(TRUE), JBool(FALSE)>>), Arr(<<JStr(Text.wild)>>)}
        \cup {Arr(<<JStr(RelativeTokens[i])>>) : i \in 1..Len(RelativeTokens)}

DefInputs ==
    {Def(t, m, v) : t \in TypeInputs, m \in ModalityInputs, v \in ValuesInputs}

\* Upper-cased declared types fieldTypeByName may hand to the user builder.
FieldTypeInputs == {Type.STRING_, Type.INT64, Type.BOOL, Type.DATE, Type.RECORD}

InitCompile ==
    /\ bigquery = FALSE
    /\ store = "small"
    /\ pc = "start"
    /\ req = NoRequest
    /\ cfg = NoConfiguration
    /\ fields = <<>>
    /\ disc = DiscIdle
    /\ filterConfig = <<>>
    /\ whereClauses = <<>>
    /\ limit = 0
    /\ offset = 0
    /\ rows = <<>>
    /\ res = NoResponse
    /\ storeCalls = <<>>
    /\ failed = <<>>
    /\ compiled = NotCompiled
    /\ discovered = <<>>
    /\ ui = NoUi
    /\ calls = <<>>

HandlerUnchanged ==
    UNCHANGED <<bigquery, store, pc, req, cfg, fields, disc, filterConfig, whereClauses,
                limit, offset, rows, res, storeCalls, failed, ui, calls, discovered>>

\* buildPredicateFromDef applied to one saved definition.
CompileSaved ==
    /\ compiled.phase = "start"
    /\ \E def \in DefInputs :
          compiled' = [phase |-> "done", provenance |-> "saved", column |-> "c",
                       def |-> def, fieldType |-> <<>>,
                       pred |-> buildPredicateFromDef("c", def)]
    /\ HandlerUnchanged

\* buildPredicateFromUser applied to one user definition.
CompileUser ==
    /\ compiled.phase = "start"
    /\ \E def \in DefInputs, fieldType \in FieldTypeInputs :
          compiled' = [phase |-> "done", provenance |-> "user", column |-> "c",
                       def |-> def, fieldType |-> fieldType,
                       pred |-> buildPredicateFromUser("c", def, fieldType)]
    /\ HandlerUnchanged

NextCompile == CompileSaved \/ CompileUser

SpecCompile == InitCompile /\ [][NextCompile]_vars

(***************************************************************************)
(* Option discovery on its own                                             *)
(***************************************************************************)
DiscoveryStores == StoreVariants \cup {"typed"}

\* generateFilterConfig(FromSchema) is called with the schema of a table.
InitDiscovery ==
    /\ bigquery = TRUE
    /\ store \in DiscoveryStores
    /\ pc = "discover"
    /\ req = NoRequest
    /\ cfg \in {pageDefinitions[p] : p \in DOMAIN pageDefinitions}
    /\ fields = TableFields(store, cfg.tableId)
    /\ disc = [i |-> 1, phase |-> "column", distinctCount |-> 0]
    /\ filterConfig = <<>>
    /\ whereClauses = <<>>
    /\ limit = 0
    /\ offset = 0
    /\ rows = <<>>
    /\ res = NoResponse
    /\ storeCalls = <<>>
    /\ failed = <<>>
    /\ compiled = NotCompiled
    /\ discovered = <<>>
    /\ ui = NoUi
    /\ calls = <<>>

\* return config, at the end of generateFilterConfig's loop.
DiscoveryReturns ==
    /\ pc = "discover"
    /\ disc.phase = "column"
    /\ disc.i > Len(fields)
    /\ pc' = "returned"
    /\ UNCHANGED <<discovered, ui, calls, compiled, bigquery, store, req, cfg, fields, disc, filterConfig,
                   whereClauses, limit, offset, rows, res, storeCalls, failed>>

\* generateFilterConfigFromSchema runs to its end: it awaits nothing.
SchemaConfigReturns ==
    /\ pc = "discover"
    /\ disc.i = 1 /\ disc.phase = "column"
    /\ filterConfig' = generateFilterConfigFromSchema(fields)
    /\ pc' = "schemaReturned"
    /\ UNCHANGED <<discovered, ui, calls, compiled, bigquery, store, req, cfg, fields, disc,
                   whereClauses, limit, offset, rows, res, storeCalls, failed>>

NextDiscovery ==
    \/ DiscoverColumn
    \/ ApproxCountFails
    \/ ApproxCountReturns
    \/ ValuesQueryFails
    \/ DistinctValuesReturns
    \/ TopValuesReturns
    \/ DiscoveryReturns
    \/ SchemaConfigReturns

SpecDiscovery == InitDiscovery /\ [][NextDiscovery]_vars

(***************************************************************************)
(* Properties                                                              *)
(***************************************************************************)
Issued(call) == \E i \in 1..Len(storeCalls) : storeCalls[i].call = call
HasFailed(call) == \E i \in 1..Len(failed) : failed[i].call = call
Served == pc = "done" /\ res.status = 200
AppliedDefinition == SavedFilterDefinition(cfg, req.savedFilterIdentifier)

\* The fragments the saved and the user definitions on schema columns
\* compile to, each on its own.
SavedFragment(i) == buildPredicateFromDef(AppliedDefinition[i].col, AppliedDefinition[i].def)
UserFragment(i) ==
    buildPredicateFromUser(req.userFilters[i].col, req.userFilters[i].def,
                           fieldTypeByName(fields, req.userFilters[i].col))
ContributingSaved ==
    {i \in 1..Len(AppliedDefinition) :
        HasColumn(fields, AppliedDefinition[i].col) /\ SavedFragment(i) # NullPred}
ContributingUser ==
    {i \in 1..Len(req.userFilters) :
        HasColumn(fields, req.userFilters[i].col) /\ UserFragment(i) # NullPred}
InWhere(pred) == \E j \in 1..Len(whereClauses) : whereClauses[j] = pred

\* A table row passes every contributing fragment.
PassesAll(row) ==
    /\ \A i \in ContributingSaved : Matches(SavedFragment(i), row)
    /\ \A i \in ContributingUser : Matches(UserFragment(i), row)

\* A saved List definition status = 'active', as a catalog entry would hold it.
SavedListActive == Def(JStr(Type.LIST), ModAbsent, Arr(<<JStr(Text.active)>>))

\* C1: once the row query is issued, the WHERE clause holds exactly the
\* non-null fragments of the applied saved definitions and of the user
\* definitions (one per definition, none dropped because another definition
\* names the same column); every row served passes all of them and the count
\* is the number of table rows that do, so a saved and a user definition on
\* one column that exclude each other serve no row: neither high_priority_leads
\* with a user filter name = 'bob', nor a saved List status = 'active' ANDed
\* with a user List status = 'pending'.
C1_WhereIsAndOfAllFragments ==
    Issued("rowQuery") =>
        /\ \A i \in ContributingSaved : InWhere(SavedFragment(i))
        /\ \A i \in ContributingUser : InWhere(UserFragment(i))
        /\ Len(whereClauses) = Cardinality(ContributingSaved) + Cardinality(ContributingUser)
        /\ Served =>
            /\ \A k \in 1..Len(res.data) : PassesAll(res.data[k])
            /\ ~HasFailed("countQuery") =>
                  res.pagination.totalRecords =
                     Cardinality({k \in 1..Len(TableRows(store, cfg.tableId)) :
                                     PassesAll(TableRows(store, cfg.tableId)[k])})
        /\ cfg.tableId = "activity" =>
               LET saved == buildPredicateFromDef("status", SavedListActive)
                   user == buildPredicateFromUser("status", UD_ListPending,
                                                  fieldTypeByName(fields, "status"))
                   table == TableRows(store, cfg.tableId)
               IN  /\ saved # NullPred /\ user # NullPred /\ saved # user
                   /\ \E k \in 1..Len(table) : Matches(saved, table[k])
                   /\ \E k \in 1..Len(table) : Matches(user, table[k])
                   /\ SelectRows(table, <<saved, user>>) = <<>>
        /\ (Served /\ req.savedFilterIdentifier = "high_priority_leads"
                   /\ cfg.pageIdentifier = "leads_view"
                   /\ req.userFilters = <<Entry("name", UD_ExactBob)>>) =>
               res.data = <<>> /\ res.pagination.totalRecords = 0

\* A served request whose saved and user definitions name the same column:
\* both fragments are in the WHERE clause and no row matches.
C1_Witness ==
    /\ Served
    /\ req.savedFilterIdentifier = "high_priority_leads"
    /\ req.userFilters = <<Entry("name", UD_ExactBob)>>
    /\ Len(whereClauses) = 2
    /\ whereClauses[1].col = "name" /\ whereClauses[2].col = "name"
    /\ whereClauses[1] # whereClauses[2]
    /\ res.data = <<>>

UnknownSaved == {i \in 1..Len(AppliedDefinition) : ~HasColumn(fields, AppliedDefinition[i].col)}
UnknownUser == {i \in 1..Len(req.userFilters) : ~HasColumn(fields, req.userFilters[i].col)}

\* C2: a definition on a column the schema lacks emits no fragment, every
\* fragment names a schema column, the request is served when no store call
\* fails, and a query the store refuses is refused for a fragment on a schema
\* column, never for the skipped definition.
C2_UnknownColumnsSkipped ==
    Issued("rowQuery") =>
        /\ \A j \in 1..Len(whereClauses) : HasColumn(fields, whereClauses[j].col)
        /\ \A i \in UnknownSaved, j \in 1..Len(whereClauses) :
              whereClauses[j].col # AppliedDefinition[i].col
        /\ \A i \in UnknownUser, j \in 1..Len(whereClauses) :
              whereClauses[j].col # req.userFilters[i].col
        /\ (pc = "done" /\ failed = <<>>) => Served
        /\ (pc = "done" /\ res.error = "row query rejected") =>
              \E j \in 1..Len(whereClauses) :
                  /\ HasColumn(fields, whereClauses[j].col)
                  /\ ~Executable(whereClauses[j], fields)

\* A request served although a saved and a user definition name columns the
\* schema lacks, with the remaining definition's fragment in force.
C2_Witness ==
    /\ Served
    /\ UnknownUser # {}
    /\ Len(whereClauses) >= 1
    /\ \E i \in 1..Len(req.userFilters) : InWhere(UserFragment(i))

IsRecordColumn(col) ==
    \E i \in 1..Len(fields) : fields[i].name = col /\ fields[i].type = Type.RECORD

\* C3: no fragment, header or filter-config entry exists for a column whose
\* declared type is RECORD.
C3_NoRecordColumnAnywhere ==
    /\ \A j \in 1..Len(whereClauses) : ~IsRecordColumn(whereClauses[j].col)
    /\ \A j \in 1..Len(filterConfig) : ~IsRecordColumn(filterConfig[j].columnName)
    /\ \A j \in 1..Len(res.tableHeaders) : ~IsRecordColumn(res.tableHeaders[j].key)

EmptyModalities ==
    {Modality.is_null, Modality.empty, Modality.is_empty, Modality.is_not_null, Modality.not_empty, Modality.is_not_empty}

\* C4: a definition with an empty values list and a modality that is not an
\* empty/not-empty modality compiles to null, whatever its archetype and
\* provenance.
C4_EmptyValuesCompileToNull ==
    (/\ compiled.phase = "done"
     /\ compiled.def.values.isArray
     /\ compiled.def.values.items = <<>>
     /\ normalizeModality(compiled.def.modality) \notin EmptyModalities)
    => compiled.pred = NullPred

RequestedPageSize == req.pagination.pageSize
RequestedPage == req.pagination.page

\* C5: the LIMIT and the reported pageSize are one number in 1..1000; a
\* requested 0 gives 1 and a requested 5000 gives 1000.
C5_PageSizeClamped ==
    Issued("rowQuery") =>
        /\ limit >= 1 /\ limit <= 1000
        /\ Served => res.pagination.pageSize = limit
        /\ RequestedPageSize = JNum(0) => limit = 1
        /\ RequestedPageSize = JNum(5000) => limit = 1000

\* C6: a requested page p is served as page max(1, p): that is the
\* currentPage reported and the page the OFFSET skips to.
C6_PageClamped ==
    (Served /\ RequestedPage.t = "num") =>
        LET served == IF RequestedPage.n >= 1 THEN RequestedPage.n ELSE 1 IN
        /\ offset = (served - 1) * res.pagination.pageSize
        /\ res.pagination.currentPage = served

\* C7: totalPages is the least number of pages of the reported pageSize that
\* hold totalRecords rows, and at least 1.
C7_TotalPages ==
    Served =>
        LET p == res.pagination IN
        /\ p.totalPages >= 1
        /\ p.totalPages * p.pageSize >= p.totalRecords
        /\ p.totalPages > 1 => (p.totalPages - 1) * p.pageSize < p.totalRecords

\* A served response with no record and still one page.
C7_Witness ==
    Served /\ res.pagination.totalRecords = 0 /\ res.pagination.totalPages = 1

\* C8: when the row query succeeded and the count query failed the request
\* is served, with the rows of the row query as data and their number as
\* totalRecords.
C8_CountFailureDegrades ==
    (pc = "done" /\ HasFailed("countQuery")) =>
        /\ res.status = 200
        /\ "data" \in res.keys /\ "error" \notin res.keys
        /\ res.data = Page(SelectRows(TableRows(store, cfg.tableId), whereClauses),
                           limit, offset)
        /\ res.pagination.totalRecords = Len(res.data)

\* The count query failed on a page that holds fewer rows than match.
C8_Witness ==
    /\ pc = "done"
    /\ HasFailed("countQuery")
    /\ Len(res.data) > 0
    /\ Len(res.data) < Len(SelectRows(TableRows(store, cfg.tableId), whereClauses))

\* C9: when the row query fails the response is { ok: false, error } with a
\* failure status and carries no rows, pagination or filter config.
C9_RowFailureFailsRequest ==
    (pc = "done" /\ HasFailed("rowQuery")) =>
        /\ res.status >= 400
        /\ res.keys = {"ok", "error"}
        /\ res.ok = FALSE
        /\ res.data = <<>> /\ res.filterConfig = <<>> /\ res.pagination = NoPagination

\* The row query failed after discovery had built a filter config.
C9_Witness ==
    pc = "done" /\ HasFailed("rowQuery") /\ Len(filterConfig) > 0 /\ res.status = 500

CatalogPages == {"leads_view", "sales_report"}

\* C10: a request for a page the catalog does not hold is answered with an
\* error at once, and no store call is ever issued for it.
C10_UnknownPageNoStoreCall ==
    (pc # "start" /\ req.pageIdentifier \notin CatalogPages) =>
        /\ pc = "done"
        /\ res.status >= 400
        /\ res.keys = {"ok", "error"}
        /\ storeCalls = <<>>

\* An unknown page answered while the client is ready to query.
C10_Witness ==
    /\ pc = "done"
    /\ bigquery
    /\ req.pageIdentifier = "no_such_page"
    /\ res.status = 400
    /\ storeCalls = <<>>

\* The saved filters of the page whose identifier the request names.
NamedSavedFilters ==
    {i \in 1..Len(cfg.savedFilters) :
        cfg.savedFilters[i].identifier = req.savedFilterIdentifier}

\* The fragments at the head of the WHERE clause, before the user's.
SavedPrefix == SubSeq(whereClauses, 1, Len(whereClauses) - Cardinality(ContributingUser))

\* C11: the saved fragments of a request all come from one saved filter of
\* the page, whose identifier is the savedFilterIdentifier requested, and that
\* filter is the appliedSavedFilter reported; when the identifier is null or
\* names no saved filter of the page there is no saved fragment,
\* appliedSavedFilter is null, and the request is served unless a store call
\* fails.
C11_AtMostOneSavedFilter ==
    Issued("rowQuery") =>
        /\ Cardinality(NamedSavedFilters) <= 1
        /\ \A i \in NamedSavedFilters :
              LET definition == cfg.savedFilters[i].filterDefinition IN
              /\ \A j \in 1..Len(SavedPrefix) :
                    \E k \in 1..Len(definition) :
                        SavedPrefix[j] = buildPredicateFromDef(definition[k].col,
                                                               definition[k].def)
              /\ \A k \in 1..Len(definition) :
                    (/\ HasColumn(fields, definition[k].col)
                     /\ buildPredicateFromDef(definition[k].col, definition[k].def) # NullPred)
                    => \E j \in 1..Len(SavedPrefix) :
                          SavedPrefix[j] = buildPredicateFromDef(definition[k].col,
                                                                 definition[k].def)
              /\ Served => res.appliedSavedFilter = cfg.savedFilters[i].identifier
        /\ NamedSavedFilters = {} =>
              /\ SavedPrefix = <<>>
              /\ Served => res.appliedSavedFilter = JsNullId
              /\ (pc = "done" /\ failed = <<>>) => Served

\* A request naming a saved filter of another page is served with the
\* user's fragment alone.
C11_Witness ==
    /\ Served
    /\ cfg.pageIdentifier = "leads_view"
    /\ req.savedFilterIdentifier = "top_performers"
    /\ Len(whereClauses) = 1
    /\ Cardinality(ContributingUser) = 1
    /\ res.appliedSavedFilter = JsNullId

DiscoveryCalls == {"approxCount", "distinctValues", "topValues"}

\* The columns one of whose discovery queries has failed.
FailedColumns ==
    {failed[k].col : k \in {i \in 1..Len(failed) : failed[i].call \in DiscoveryCalls}}

FieldOf(col) == fields[CHOOSE i \in 1..Len(fields) : fields[i].name = col]

\* The entry generateFilterConfig gives a column when its queries succeed.
UndisturbedEntry(f) ==
    LET table == TableRows(store, cfg.tableId) IN
    IF toUpperCase(f.type) # Type.STRING_ THEN TypeDrivenEntry(f)
    ELSE IF ApproxCountDistinct(table, f.name) <= ListThreshold
        THEN ConfigEntry(f.name, Type.LIST, WithFallback(DistinctValues(table, f.name)))
    ELSE ConfigEntry(f.name, Type.FREETEXT, WithFallback(TopValues(table, f.name)))

\* The entries of generateFilterConfig, as far as its loop has come.
QueriedConfig == IF pc = "schemaReturned" THEN <<>> ELSE filterConfig

\* C12: a column one of whose discovery queries failed still gets its entry,
\* which is FREETEXT with the Empty / Not Empty fallback as only options, and
\* every other column's entry is the one it gets when no query fails.
C12_FailedColumnDegradesToFreeText ==
    /\ \A c \in FailedColumns :
          \E j \in 1..Len(QueriedConfig) : QueriedConfig[j].columnName = c
    /\ \A j \in 1..Len(QueriedConfig) :
          LET e == QueriedConfig[j] IN
          IF e.columnName \in FailedColumns
          THEN e.filterType = Type.FREETEXT /\ e.options = EmptyNotEmptyOptions
          ELSE e = UndisturbedEntry(FieldOf(e.columnName))

\* The literal options the resolution rules of the entry's column produced,
\* before any fallback: those of its declared type, or the values its
\* value query returned.
ResolvedOptions(e) ==
    LET f == FieldOf(e.columnName)
        type == toUpperCase(f.type)
        table == TableRows(store, cfg.tableId)
    IN
    IF type \in {Type.DATE, Type.DATETIME, Type.TIMESTAMP}
        THEN IF pc = "schemaReturned" THEN SchemaDateOptions ELSE DateOptions
    ELSE IF type \in {Type.BOOL, Type.BOOLEAN} THEN BooleanOptions
    ELSE IF type \in NumericFieldTypes THEN NumericOptions
    ELSE IF type = Type.STRING_ /\ pc # "schemaReturned" /\ e.columnName \notin FailedColumns
        THEN IF ApproxCountDistinct(table, f.name) <= ListThreshold
             THEN DistinctValues(table, f.name)
             ELSE TopValues(table, f.name)
    ELSE <<>>

\* C13: every entry of the filter config, from either generator, has at
\* least one option; its options are the pair Empty, Not Empty exactly when
\* its column's rules produced no literal option, and are the literal options
\* unchanged otherwise.
C13_FallbackOnlyWhenNoOption ==
    \A j \in 1..Len(filterConfig) :
        LET e == filterConfig[j] IN
        /\ Len(e.options) > 0
        /\ e.options = EmptyNotEmptyOptions <=> ResolvedOptions(e) = <<>>
        /\ ResolvedOptions(e) # <<>> => e.options = ResolvedOptions(e)

\* generateFilterConfig has returned for the typed table without a failure:
\* the column without values has the fallback, the others their own options.
C13_Witness ==
    /\ pc = "returned"
    /\ store = "typed" /\ cfg.tableId = "vsg"
    /\ failed = <<>>
    /\ \E j \in 1..Len(filterConfig) :
          /\ filterConfig[j].columnName = "note"
          /\ filterConfig[j].options = EmptyNotEmptyOptions
    /\ \E j \in 1..Len(filterConfig) :
          /\ filterConfig[j].columnName = "version"
          /\ filterConfig[j].options = <<JStr(Text.DRAFT), JStr(Text.PUBLISHED)>>
    /\ \E j \in 1..Len(filterConfig) :
          /\ filterConfig[j].columnName = "is_public"
          /\ filterConfig[j].options = BooleanOptions

\* The entries of STRING columns whose queries all succeeded.
ResolvedStringEntries ==
    {j \in 1..Len(QueriedConfig) :
        /\ toUpperCase(FieldOf(QueriedConfig[j].columnName).type) = Type.STRING_
        /\ QueriedConfig[j].columnName \notin FailedColumns}

\* The options are at most ListLimit distinct non-null values of the
\* column, the least ones, in ascending order.
IsAscendingSelection(options, values) ==
    /\ Len(options) <= ListLimit
    /\ Len(options) = Cardinality(values) \/ Len(options) = ListLimit
    /\ \A i \in 1..Len(options) : options[i].t = "str" /\ options[i].s \in values
    /\ \A i \in 1..(Len(options) - 1) : StrLess(options[i].s, options[i + 1].s)
    /\ \A v \in values :
          (\A i \in 1..Len(options) : options[i].s # v)
          => \A i \in 1..Len(options) : StrLess(options[i].s, v)

\* The options are at most TopLimit distinct non-null values of the column,
\* none less frequent than one left out, in non-increasing frequency order.
IsTopSelection(options, values, table, col) ==
    /\ Len(options) <= TopLimit
    /\ Len(options) = Cardinality(values) \/ Len(options) = TopLimit
    /\ \A i \in 1..Len(options) : options[i].t = "str" /\ options[i].s \in values
    /\ \A i, k \in 1..Len(options) : i # k => options[i] # options[k]
    /\ \A i \in 1..(Len(options) - 1) :
          Frequency(table, col, options[i].s) >= Frequency(table, col, options[i + 1].s)
    /\ \A v \in values :
          (\A i \in 1..Len(options) : options[i].s # v)
          => \A i \in 1..Len(options) :
                Frequency(table, col, options[i].s) >= Frequency(table, col, v)

ApproxCountIssued(col) ==
    \E k \in 1..Len(storeCalls) :
        storeCalls[k].call = "approxCount" /\ storeCalls[k].col = col

Compiled(provenance) == compiled.phase = "done" /\ compiled.provenance = provenance

\* Cells a column may hold, for reading a fragment by the rows it accepts.
SampleCells ==
    {JNull, JStr(<<>>), JStr(Text.ak), JStr(Text.active), JStr(Text.pending), JStr(Text.abc),
     JStr(Text.false), JStr(Text.five), JBool(TRUE), JBool(FALSE),
     JNum(0), JNum(3), JNum(5), JNum(7), JNum(8)}

\* The cells the compiled fragment accepts.
Accepted == {cell \in SampleCells : Matches(compiled.pred, [c |-> cell])}

EmptyCells == {cell \in SampleCells : cell.t = "null" \/ CastAsString(cell) = <<>>}

CompiledDateType ==
    TypeOf(compiled.def.type, compiled.fieldType) \in {Type.DATE, Type.DATETIME, Type.TIMESTAMP}

\* C15: a user definition whose values are exactly ['Empty'] compiles to the
\* fragment accepting the cells that are NULL or cast to the empty string,
\* and exactly ['Not Empty'] to the fragment accepting all other cells,
\* whatever its type, the column's type and its modality; a saved definition
\* with these values gets an empty / not-empty fragment from its modality
\* only.
C15_EmptyTokenShortcut ==
    /\ (Compiled("user") /\ compiled.def.values = Arr(<<JStr(Token.Empty)>>)) =>
          /\ compiled.pred = buildEmptyNotEmpty(compiled.column).empty
          /\ Accepted = EmptyCells
    /\ (Compiled("user") /\ compiled.def.values = Arr(<<JStr(Token.Not_Empty)>>)) =>
          /\ compiled.pred = buildEmptyNotEmpty(compiled.column).notEmpty
          /\ Accepted = SampleCells \ EmptyCells
    /\ (/\ Compiled("saved")
        /\ compiled.def.values \in {Arr(<<JStr(Token.Empty)>>), Arr(<<JStr(Token.Not_Empty)>>)}
        /\ compiled.pred.op \in {"EMPTY", "NOT_EMPTY"}) =>
          normalizeModality(compiled.def.modality) \in EmptyModalities

\* The shortcut taken on a DATE definition that carries a date modality.
C15_Witness ==
    /\ Compiled("user")
    /\ compiled.def.type = JStr(Type.DATE)
    /\ compiled.def.modality = ModStr(Modality.before)
    /\ compiled.def.values = Arr(<<JStr(Token.Not_Empty)>>)
    /\ compiled.pred.op = "NOT_EMPTY"

EmptyModalityNames == {Modality.is_null, Modality.empty, Modality.is_empty}
NotEmptyModalityNames == {Modality.is_not_null, Modality.not_empty, Modality.is_not_empty}

\* The definition's modality is one of the names, as a bare string or as
\* the only element of a list.
AsksFor(names) ==
    \E n \in names :
        compiled.def.modality \in {ModStr(n), ModArr(<<JStr(n)>>)}

\* The user definition takes the literal-token shortcut.
TakesShortcut ==
    /\ compiled.provenance = "user"
    /\ compiled.def.values \in {Arr(<<JStr(Token.Empty)>>), Arr(<<JStr(Token.Not_Empty)>>)}

\* C16, as worded: for a definition that is not of a date type, an empty
\* modality compiles to the empty fragment and a not-empty modality to the
\* not-empty fragment, whatever the values; for a definition of a date type
\* these modalities yield no empty / not-empty fragment.
C16_ModalityDrivenEmpty ==
    compiled.phase = "done" =>
        /\ (~CompiledDateType /\ AsksFor(EmptyModalityNames))
              => compiled.pred = buildEmptyNotEmpty(compiled.column).empty
        /\ (~CompiledDateType /\ AsksFor(NotEmptyModalityNames))
              => compiled.pred = buildEmptyNotEmpty(compiled.column).notEmpty
        /\ (CompiledDateType /\ AsksFor(EmptyModalities))
              => compiled.pred.op \notin {"EMPTY", "NOT_EMPTY"}

\* C16, amended: the same for every definition but a user definition whose
\* values are exactly ['Empty'] or ['Not Empty'], which the token decides.
C16_ModalityDrivenEmptyAfterShortcut ==
    (compiled.phase = "done" /\ ~TakesShortcut) =>
        /\ (~CompiledDateType /\ AsksFor(EmptyModalityNames))
              => /\ compiled.pred = buildEmptyNotEmpty(compiled.column).empty
                 /\ Accepted = EmptyCells
        /\ (~CompiledDateType /\ AsksFor(NotEmptyModalityNames))
              => /\ compiled.pred = buildEmptyNotEmpty(compiled.column).notEmpty
                 /\ Accepted = SampleCells \ EmptyCells
        /\ (CompiledDateType /\ AsksFor(EmptyModalities))
              => compiled.pred.op \notin {"EMPTY", "NOT_EMPTY"}

\* The owner_project_id definition of top_performers: an array modality
\* and no values.
C16_Witness ==
    /\ Compiled("saved")
    /\ compiled.def = Def(JStr(Type.FREETEXT), ModArr(<<JStr(Modality.is_not_empty)>>), NotArr)
    /\ compiled.pred.op = "NOT_EMPTY"

\* The same modality name in other dress: as a bare string and as a
\* one-element list, as written, in lower case and in upper case.
ModalityVariants(mod) ==
    LET name == IF mod.k = "str" THEN mod.s ELSE mod.items[1].s
        cases == {name, toLowerCase(name), toUpperCase(name)}
    IN {ModStr(n) : n \in cases} \cup {ModArr(<<JStr(n)>>) : n \in cases}

HasModalityName ==
    \/ compiled.def.modality.k = "str"
    \/ /\ compiled.def.modality.k = "arr"
       /\ Len(compiled.def.modality.items) = 1
       /\ compiled.def.modality.items[1].t = "str"

Recompiled(def) ==
    IF compiled.provenance = "saved" THEN buildPredicateFromDef(compiled.column, def)
    ELSE buildPredicateFromUser(compiled.column, def, compiled.fieldType)

\* C17: a definition compiles to the same fragment when its modality is
\* given as a bare string or as a one-element list, in any letter case.
C17_ModalityFormIrrelevant ==
    (compiled.phase = "done" /\ HasModalityName) =>
        \A mod \in ModalityVariants(compiled.def.modality) :
            Recompiled([compiled.def EXCEPT !.modality = mod]) = compiled.pred

\* A definition whose modality decides the fragment: exact gives '=', and
\* 'EXACT' and ['Exact'] must give it too.
C17_Witness ==
    /\ Compiled("saved")
    /\ compiled.def = Def(JStr(Type.FREETEXT), ModStr(Modality.exact), Arr(<<JStr(Text.ak)>>))
    /\ compiled.pred.cmp = "="
    /\ ModArr(<<JStr(toUpperCase(Modality.exact))>>) \in ModalityVariants(compiled.def.modality)


\* A definition of List type that neither empty rule decides.
ListSelection ==
    /\ compiled.phase = "done"
    /\ TypeOf(compiled.def.type, compiled.fieldType) = Type.LIST
    /\ ~TakesShortcut
    /\ normalizeModality(compiled.def.modality) \notin EmptyModalities

\* Text cells a STRING column may hold, the selected values among them.
ListCells ==
    {cell \in SampleCells : cell.t \in {"str", "null"}}
        \cup {JStr(String(ValuesOf(compiled.def)[i])) : i \in 1..Len(ValuesOf(compiled.def))}

\* The cells that equal one of the selected values.
SelectedCells ==
    {cell \in ListCells :
        /\ cell.t = "str"
        /\ \E i \in 1..Len(ValuesOf(compiled.def)) : String(ValuesOf(compiled.def)[i]) = cell.s}

\* C18: a List definition with at least one value compiles to a membership
\* test with one literal per value that the store accepts on a STRING column
\* and that matches exactly the cells equal to one of the values, each value
\* read as opaque text; a List definition with no values compiles to no
\* fragment.
C18_ListMembershipOpaque ==
    ListSelection =>
        IF ValuesOf(compiled.def) = <<>> THEN compiled.pred = NullPred
        ELSE /\ compiled.pred.op = "IN"
             /\ Len(compiled.pred.args) = Len(ValuesOf(compiled.def))
             /\ Executable(compiled.pred, <<Field(compiled.column, Type.STRING_)>>)
             /\ {cell \in ListCells : Matches(compiled.pred, [c |-> cell])} = SelectedCells


\* A definition of Boolean type that neither empty rule decides.
BooleanSelection ==
    /\ compiled.phase = "done"
    /\ TypeOf(compiled.def.type, compiled.fieldType) \in {Type.BOOLEAN, Type.BOOL}
    /\ ~TakesShortcut
    /\ normalizeModality(compiled.def.modality) \notin EmptyModalities

\* Values that say true, and values that say false.
SaysTrue == {JBool(TRUE), JStr(toLowerCase(Sql.True))}
SaysFalse == {JBool(FALSE), JStr(Text.false)}

BooleanCells == {cell \in SampleCells : cell.t \in {"bool", "null"}}

\* C19: a Boolean definition compiles to a fragment only when it carries
\* exactly one value; the fragment is equality of the column with TRUE for
\* a value that says true and with FALSE for a value that says false, and
\* the latter accepts the cells that are exactly false and no NULL cell.
C19_BooleanExactlyOneValue ==
    BooleanSelection =>
        /\ compiled.pred # NullPred => Len(ValuesOf(compiled.def)) = 1
        /\ (Len(ValuesOf(compiled.def)) = 1 /\ ValuesOf(compiled.def)[1] \in SaysTrue) =>
              compiled.pred = Pred("BOOL_EQ", compiled.column, "=", <<Sql.True>>)
        /\ (Len(ValuesOf(compiled.def)) = 1 /\ ValuesOf(compiled.def)[1] \in SaysFalse) =>
              /\ compiled.pred = Pred("BOOL_EQ", compiled.column, "=", <<Sql.False>>)
              /\ {cell \in BooleanCells : Matches(compiled.pred, [c |-> cell])} = {JBool(FALSE)}


\* A definition of Numeric type that neither empty rule decides and whose
\* operands are numbers: one, or two under 'between'.
NumericSelection ==
    /\ compiled.phase = "done"
    /\ TypeOf(compiled.def.type, compiled.fieldType) = Type.NUMERIC
    /\ ~TakesShortcut
    /\ normalizeModality(compiled.def.modality) \notin EmptyModalities
    /\ Len(ValuesOf(compiled.def)) >=
          (IF normalizeModality(compiled.def.modality) = Modality.between THEN 2 ELSE 1)
    /\ \A i \in 1..Len(ValuesOf(compiled.def)) : Number(ValuesOf(compiled.def)[i]).t = "num"

NumberCells == {cell \in SampleCells : cell.t \in {"num", "null"}}

\* The number cells the compiled fragment accepts.
AcceptedNumbers == {cell \in NumberCells : Matches(compiled.pred, [c |-> cell])}

Operand(i) == Number(ValuesOf(compiled.def)[i]).n

\* C20: a Numeric definition, saved or user, compiles under 'greater than'
\* to the comparison accepting the cells above values[0], under 'less than'
\* those below it, under 'between' those from values[0] to values[1]
\* inclusive, and under any other or no modality those equal to values[0].
C20_NumericModalities ==
    NumericSelection =>
        /\ compiled.pred.op = "NUM"
        /\ CASE normalizeModality(compiled.def.modality) = Modality.greater_than ->
                    /\ compiled.pred.cmp = ">"
                    /\ AcceptedNumbers = {cell \in NumberCells : cell.t = "num" /\ cell.n > Operand(1)}
             [] normalizeModality(compiled.def.modality) = Modality.less_than ->
                    /\ compiled.pred.cmp = "<"
                    /\ AcceptedNumbers = {cell \in NumberCells : cell.t = "num" /\ cell.n < Operand(1)}
             [] normalizeModality(compiled.def.modality) = Modality.between ->
                    /\ compiled.pred.cmp = "BETWEEN"
                    /\ AcceptedNumbers =
                          {cell \in NumberCells :
                              cell.t = "num" /\ Operand(1) <= cell.n /\ cell.n <= Operand(2)}
             [] OTHER ->
                    /\ compiled.pred.cmp = "="
                    /\ AcceptedNumbers = {cell \in NumberCells : cell.t = "num" /\ cell.n = Operand(1)}


\* A string that is not the decimal text of a number: blank, or not parsed.
NonNumericString(v) ==
    /\ v.t = "str"
    /\ TrimBlanks(v.s) = <<>> \/ Number(v).t = "nan"

\* A Numeric definition that neither empty rule decides and whose first
\* value is a non-numeric string.
NonNumericSelection ==
    /\ compiled.phase = "done"
    /\ TypeOf(compiled.def.type, compiled.fieldType) = Type.NUMERIC
    /\ ~TakesShortcut
    /\ normalizeModality(compiled.def.modality) \notin EmptyModalities
    /\ Len(ValuesOf(compiled.def)) >= 1
    /\ NonNumericString(ValuesOf(compiled.def)[1])

\* C21: a Numeric definition whose value is a non-numeric string, the empty
\* string included, never compiles to a comparison: not against 0, not
\* against a not-a-number operand.
C21_NonNumericRejected ==
    NonNumericSelection => compiled.pred.op # "NUM"


\* A user definition of a date type that the literal-token shortcut does
\* not decide.
UserDateSelection ==
    /\ Compiled("user")
    /\ CompiledDateType
    /\ ~TakesShortcut

FirstValue == At(ValuesOf(compiled.def), 0)

IsRelativeToken(v) == \E i \in 1..Len(RelativeTokens) : v = JStr(RelativeTokens[i])

\* Current dates to read a fragment on: January to March, so that the
\* months before and after lie in the calendar.
Todays == MonthStarts[2]..(MonthStarts[5] - 1)

\* The calendar month a day falls in, counted from the calendar's first,
\* and the days of a month.
MonthIndex(d) == Cardinality({i \in 1..Len(MonthStarts) : MonthStarts[i] <= d})
MonthDays(m) == MonthStarts[m]..(MonthStarts[m + 1] - 1)

\* The days the token stands for on the given current date.
TokenDays(token, today) ==
    CASE token = Token.today -> {today}
      [] token = Token.yesterday -> {today - 1}
      [] token = Token.tomorrow -> {today + 1}
      [] token = Token.last_7_days -> (today - 7)..today
      [] token = Token.next_7_days -> today..(today + 7)
      [] token = Token.this_month -> {d \in MonthDays(MonthIndex(today)) : d <= today}
      [] token = Token.last_month -> MonthDays(MonthIndex(today) - 1)
      [] token = Token.next_month -> MonthDays(MonthIndex(today) + 1)

FreeTextSelection ==
    /\ compiled.phase = "done"
    /\ TypeOf(compiled.def.type, compiled.fieldType)
          \notin {Type.LIST, Type.BOOLEAN, Type.BOOL, Type.NUMERIC,
                  Type.DATE, Type.DATETIME, Type.TIMESTAMP}
    /\ ~TakesShortcut
    /\ normalizeModality(compiled.def.modality) \notin EmptyModalities

\* The text searched for.
Needle == String(ValuesOf(compiled.def)[1])

\* Cells to read the fragment on: the sample cells, the needle itself, in
\* upper case, with a character before or after it, and without its last
\* character.
TextCells ==
    SampleCells \cup
        {JStr(Needle), JStr(toUpperCase(Needle)), JStr(Needle \o <<"x">>),
         JStr(<<"x">> \o Needle), JStr(SubSeq(Needle, 1, Len(Needle) - 1))}

\* The cells whose text equals, starts with or contains the needle,
\* whatever the case, as the modality asks.
FoundCells ==
    {cell \in TextCells :
        /\ ~IsNullCell(cell)
        /\ LET text == toLowerCase(CastAsString(cell))
               needle == toLowerCase(Needle)
           IN CASE normalizeModality(compiled.def.modality) = Modality.exact -> text = needle
                [] normalizeModality(compiled.def.modality) = Modality.starts_with ->
                       StartsWith(text, needle)
                [] OTHER -> Includes(text, needle)}

\* C23: a FreeText definition with a value v compiles to a comparison of
\* the lower-cased text of the column that the store accepts and that is
\* true of exactly the cells whose text equals v ('exact'), starts with v
\* ('starts with') or contains v (any other modality), whatever the case
\* and whatever characters v holds; with no values it compiles to no
\* fragment.
C23_FreeTextMatchesLiterally ==
    FreeTextSelection =>
        IF ValuesOf(compiled.def) = <<>> THEN compiled.pred = NullPred
        ELSE /\ compiled.pred.op = "LOWER_TEXT"
             /\ compiled.pred.cmp =
                   (IF normalizeModality(compiled.def.modality) = Modality.exact
                    THEN "=" ELSE "LIKE")
             /\ Executable(compiled.pred, <<Field(compiled.column, Type.STRING_)>>)
             /\ {cell \in TextCells : Matches(compiled.pred, [c |-> cell])} = FoundCells


\* The place of a store call in the handler: schema read, option
\* discovery, row query, count query.
CallStage(call) ==
    CASE call = "getMetadata" -> 1
      [] call \in DiscoveryCalls -> 2
      [] call = "rowQuery" -> 3
      [] call = "countQuery" -> 4

\* The positions of the calls of one kind for one column.
CallsOf(kinds, col) ==
    {i \in 1..Len(storeCalls) : storeCalls[i].call \in kinds /\ storeCalls[i].col = col}

\* C29: within one request the store calls are issued in the order schema
\* read, discovery queries, row query, count query; the schema read, the
\* row query and the count query at most once each, and for each column at
\* most one count of distinct values followed by at most one values query;
\* the count query only after the row query has returned its rows; and no
\* row or count query once the schema read has failed.
C29_StoreCallOrder ==
    /\ \A i, j \in 1..Len(storeCalls) :
          i < j => CallStage(storeCalls[i].call) <= CallStage(storeCalls[j].call)
    /\ \A call \in {"getMetadata", "rowQuery", "countQuery"} :
          Cardinality(CallsOf({call}, "")) <= 1
    /\ \A i \in 1..Len(storeCalls) :
          storeCalls[i].call \in DiscoveryCalls =>
              /\ Cardinality(CallsOf({"approxCount"}, storeCalls[i].col)) = 1
              /\ Cardinality(CallsOf({"distinctValues", "topValues"}, storeCalls[i].col)) <= 1
              /\ \A j \in CallsOf({"distinctValues", "topValues"}, storeCalls[i].col) :
                    \A k \in CallsOf({"approxCount"}, storeCalls[i].col) : k < j
    /\ storeCalls # <<>> => storeCalls[1].call = "getMetadata"
    /\ Issued("countQuery") =>
          /\ Issued("rowQuery")
          /\ ~HasFailed("rowQuery")
          /\ rows = Page(SelectRows(TableRows(store, cfg.tableId), whereClauses), limit, offset)
    /\ HasFailed("getMetadata") => ~Issued("rowQuery") /\ ~Issued("countQuery")

\* A served request on the wide store: every stage was passed, with both
\* kinds of values query in between.
C29_Witness ==
    /\ Served
    /\ Issued("distinctValues") /\ Issued("topValues")
    /\ Issued("countQuery")
    /\ Len(storeCalls) >= 7


(***************************************************************************)
(* The page script (script.js) and the responses it renders                *)
(***************************************************************************)
\* The filter config generateFilterConfig builds for a table when none of
\* its queries fails: one entry per non-RECORD field, in schema order.
generateFilterConfig(table, tableFields) ==
    LET entry(f) ==
            IF toUpperCase(f.type) # Type.STRING_ THEN TypeDrivenEntry(f)
            ELSE IF ApproxCountDistinct(table, f.name) <= ListThreshold
                THEN ConfigEntry(f.name, Type.LIST, WithFallback(DistinctValues(table, f.name)))
            ELSE ConfigEntry(f.name, Type.FREETEXT, WithFallback(TopValues(table, f.name)))
        kept == SelectSeq(tableFields, LAMBDA f : f.type # Type.RECORD)
    IN [i \in 1..Len(kept) |-> entry(kept[i])]

\* The config of each table of a store. The handler finds it anew for every
\* request and finds the same, as the tables do not change.
Discovered(variant) ==
    [tableId \in {"activity", "vsg"} |->
        generateFilterConfig(TableRows(variant, tableId), TableFields(variant, tableId))]

\* The response of POST /api/page-data to one request body when every store
\* call returns: the handler's steps composed in their order.
PageData(variant, configs, body) ==
    LET r == Destructure(body.pageIdentifier, body.savedFilterIdentifier,
                         body.userFilters, body.pagination)
        c == getPageConfiguration(r.pageIdentifier)
        tableFields == TableFields(variant, c.tableId)
        where == BuildWhereClauses(SavedFilterDefinition(c, r.savedFilterIdentifier),
                                   r.userFilters, tableFields)
        lim == Limit(r.pagination)
        matching == SelectRows(TableRows(variant, c.tableId), where)
        found == FindSavedFilter(c, r.savedFilterIdentifier)
    IN IF c = NoConfiguration THEN ErrorResponse(400, "Invalid pageIdentifier")
       ELSE IF c.datasetId = "undefined" THEN ErrorResponse(500, "TypeError")
       ELSE IF \E i \in 1..Len(where) : ~Executable(where[i], tableFields)
           THEN ErrorResponse(500, "row query rejected")
       ELSE PageResponse(
               formatTableHeaders(columnNames(tableFields)),
               Page(matching, lim, Offset(r.pagination, lim)),
               configs[c.tableId],
               [currentPage |-> CurrentPage(r.pagination),
                pageSize |-> lim,
                totalRecords |-> Len(matching),
                totalPages |-> TotalPages(Len(matching), lim)],
               IF found = <<>> THEN JsNullId ELSE found[1].identifier)

\* userFilters is a plain object: its keys in insertion order.
HasKey(object, key) == \E i \in 1..Len(object) : object[i].col = key
Get(object, key) == object[CHOOSE i \in 1..Len(object) : object[i].col = key].def
\* object[key] = def
Set(object, key, def) ==
    IF HasKey(object, key)
    THEN [i \in 1..Len(object) |-> IF object[i].col = key THEN Entry(key, def) ELSE object[i]]
    ELSE Append(object, Entry(key, def))
\* delete object[key]
Delete(object, key) == SelectSeq(object, LAMBDA e : e.col # key)

\* existing && Array.isArray(existing.values) ? existing.values : []
ValuesIn(object, key) ==
    IF HasKey(object, key) THEN ValuesOf(Get(object, key)) ELSE <<>>

\* The click handler of a quick chip: userFilters after the toggle of opt
\* on the column of config entry fc.
QuickChipToggle(filters, fc, opt) ==
    LET values == ValuesIn(filters, fc.columnName)
        hits == {i \in 1..Len(values) : values[i] = opt}
        idx == CHOOSE i \in hits : \A j \in hits : i <= j
        toggled == IF hits # {}
                   THEN SubSeq(values, 1, idx - 1) \o SubSeq(values, idx + 1, Len(values))
                   ELSE Append(values, opt)
    IN IF fc.filterType = Type.FREETEXT
       THEN IF values # <<>> /\ values[1] = opt
            THEN Delete(filters, fc.columnName)
            ELSE Set(filters, fc.columnName,
                     Def(JStr(fc.filterType), ModAbsent, Arr(<<opt>>)))
       ELSE IF toggled = <<>> THEN Delete(filters, fc.columnName)
            ELSE Set(filters, fc.columnName,
                     Def(JStr(fc.filterType), ModAbsent, Arr(toggled)))


\* The modality options openFilterPopover offers for a filter type, which
\* are the lower-cased labels.
PopoverModalities(filterType) ==
    CASE filterType = Type.FREETEXT ->
            {Modality.contains, Modality.exact, Modality.starts_with,
             Modality.is_empty, Modality.is_not_empty}
      [] filterType = Type.NUMERIC ->
            {Modality.equals, Modality.between, Modality.greater_than, Modality.less_than,
             Modality.is_empty, Modality.is_not_empty}
      [] filterType = Type.DATE ->
            {Modality.on, Modality.between, Modality.before, Modality.after}
      [] filterType = Type.LIST ->
            {Modality.is, Modality.contains, Modality.exact, Modality.starts_with,
             Modality.is_empty, Modality.is_not_empty}
      [] filterType = Type.BOOLEAN ->
            {Modality.is, Modality.is_empty, Modality.is_not_empty}
      [] OTHER -> {}

\* What the user types into a text, number or date input of the popover.
Typed(filterType) ==
    CASE filterType = Type.NUMERIC -> Text.five
      [] filterType = Type.DATE -> Text.date
      [] OTHER -> Text.ak

\* Of a row of chips or the options of a select, the user picks among the
\* first this many.
MaxChoices == 2

\* options.slice(0, 6), of which the first MaxChoices are clicked
QuickOptions(fc) == SubSeq(fc.options, 1, Min(6, Len(fc.options)))
Choices(options) == SubSeq(options, 1, Min(MaxChoices, Len(options)))

\* The popover form at the time Apply is clicked: the modality chosen and
\* the value of each input the form of the type holds.
PopoverForms(ctx) ==
    LET strings == {String(Choices(ctx.options)[i]) : i \in 1..Len(Choices(ctx.options))} IN
    [modality : PopoverModalities(ctx.filterType),
     value1 : IF ctx.filterType = Type.BOOLEAN THEN {<<>>} ELSE {Typed(ctx.filterType)},
     value2 : IF ctx.filterType \in {Type.NUMERIC, Type.DATE}
              THEN {Typed(ctx.filterType)} ELSE {<<>>},
     valueSelect : IF ctx.filterType = Type.LIST /\ strings # {} THEN strings ELSE {<<>>},
     boolValue : IF ctx.filterType = Type.BOOLEAN
                 THEN {String(JBool(TRUE)), String(JBool(FALSE))} ELSE {<<>>}]

\* The values filterPopoverApply reads off the form.
PopoverValues(filterType, form) ==
    LET empties == {Modality.is_empty, Modality.is_not_empty}
        one == <<JStr(form.value1)>>
        two == <<JStr(form.value1), JStr(form.value2)>>
    IN CASE filterType = Type.FREETEXT ->
                IF form.modality \in empties THEN <<>> ELSE one
         [] filterType = Type.NUMERIC ->
                IF form.modality = Modality.between THEN two
                ELSE IF form.modality \in empties THEN <<>> ELSE one
         [] filterType = Type.DATE ->
                IF form.modality = Modality.between THEN two ELSE one
         [] filterType = Type.LIST ->
                IF form.modality = Modality.is THEN <<JStr(form.valueSelect)>>
                ELSE IF form.modality \in empties THEN <<>> ELSE one
         [] filterType = Type.BOOLEAN ->
                IF form.modality \in empties THEN <<>>
                ELSE <<JBool(form.boolValue = String(JBool(TRUE)))>>
         [] OTHER -> <<>>

\* At most this many clicks and selections of the user are followed.
MaxActions == 3
\* At most this many requests of the page script are unanswered at a time.
MaxInFlight == 2

\* No request has been answered: nothing is rendered.
NothingShown == [id |-> 0, payload |-> <<>>, data |-> NoResponse, current |-> <<>>]
\* let paginationState = { page: 1, pageSize: 10 }
InitialPagination == [page |-> 1, pageSize |-> 10]
\* No quick chip was clicked last.
NoToggle == [column |-> "", opt |-> JUndef, count |-> 0, before |-> <<>>]

\* The body fetchAndRender posts, serialised when it is called.
Payload(u) ==
    [pageIdentifier |-> u.pageSelector.value,
     savedFilterIdentifier |-> u.currentSavedFilter,
     userFilters |-> u.userFilters,
     pagination |-> [present |-> TRUE,
                     page |-> JNum(u.paginationState.page),
                     pageSize |-> JNum(u.paginationState.pageSize)]]

\* fetchAndRender up to its await: the selector is disabled and the request
\* is on its way.
fetchAndRender(u) ==
    [u EXCEPT !.pageSelector.disabled = TRUE,
              !.issued = @ + 1,
              !.inFlight = Append(@, [id |-> u.issued + 1, payload |-> Payload(u)])]

\* A click or selection of the user: counted, and it ends a run of toggles
\* unless it is one.
UserAction(u) == [u EXCEPT !.actions = @ + 1, !.toggle = NoToggle]

CanAct ==
    /\ ui.loaded
    /\ ui.actions < MaxActions
    /\ Len(ui.inFlight) < MaxInFlight

\* What the last render was given: data.filterConfig, data.pagination ||
\* { currentPage: 1, totalPages: 1 }, data.savedFilters and
\* window.__appliedSavedFilter.filterDefinition || {}
Shown ==
    LET data == ui.shown.data
        page == getPageConfiguration(ui.shown.payload.pageIdentifier)
        ok == data.status = 200
    IN [config |-> data.filterConfig,
        pagination |-> IF ok THEN data.pagination
                       ELSE [NoPagination EXCEPT !.currentPage = 1, !.totalPages = 1],
        savedFilters |-> IF ok THEN page.savedFilters ELSE <<>>,
        savedDef |-> IF ok THEN SavedFilterDefinition(page, data.appliedSavedFilter)
                     ELSE <<>>]
\* savedValuesSet of a column
SavedValuesSet(columnName) ==
    {String(v) : v \in {ValuesIn(Shown.savedDef, columnName)[i] :
                           i \in 1..Len(ValuesIn(Shown.savedDef, columnName))}}

OtherVars ==
    UNCHANGED <<bigquery, store, pc, req, cfg, fields, disc, filterConfig, whereClauses,
                limit, offset, rows, res, storeCalls, failed, compiled, calls,
                discovered>>

\* The script starts on a page of the selector and fetches it.
InitFrontend ==
    /\ bigquery = TRUE
    /\ store \in StoreVariants
    /\ pc = "start"
    /\ req = NoRequest
    /\ cfg = NoConfiguration
    /\ fields = <<>>
    /\ disc = DiscIdle
    /\ filterConfig = <<>>
    /\ whereClauses = <<>>
    /\ limit = 0
    /\ offset = 0
    /\ rows = <<>>
    /\ res = NoResponse
    /\ storeCalls = <<>>
    /\ failed = <<>>
    /\ compiled = NotCompiled
    /\ calls = <<>>
    /\ discovered = Discovered(store)
    /\ \E page \in DOMAIN pageDefinitions :
          ui = fetchAndRender(
                  [loaded |-> TRUE,
                   pageSelector |-> [value |-> page, disabled |-> FALSE],
                   currentSavedFilter |-> JsNullId,
                   userFilters |-> <<>>,
                   paginationState |-> InitialPagination,
                   issued |-> 0,
                   inFlight |-> <<>>,
                   shown |-> NothingShown,
                   toggle |-> NoToggle,
                   actions |-> 0])


\* A quick chip of the view is clicked.
QuickChipClick ==
    /\ CanAct
    /\ \E i \in 1..Len(Shown.config) :
        LET fc == Shown.config[i] IN
        \E k \in 1..Len(Choices(QuickOptions(fc))) :
            LET opt == QuickOptions(fc)[k]
                again == /\ ui.toggle.count = 1
                         /\ ui.toggle.column = fc.columnName
                         /\ ui.toggle.opt = opt
            IN /\ String(opt) \notin SavedValuesSet(fc.columnName)
               /\ ui' = fetchAndRender(
                          [UserAction(ui) EXCEPT
                              !.userFilters = QuickChipToggle(ui.userFilters, fc, opt),
                              !.toggle = IF again THEN [ui.toggle EXCEPT !.count = 2]
                                         ELSE [column |-> fc.columnName, opt |-> opt,
                                               count |-> 1, before |-> ui.userFilters]])
    /\ OtherVars

\* The chip of a selection without values (is empty, is not empty) is
\* clicked: the selection is removed.
ModalityChipClick ==
    /\ CanAct
    /\ \E i \in 1..Len(Shown.config) :
        LET column == Shown.config[i].columnName IN
        /\ HasKey(ui.shown.current, column)
        /\ Get(ui.shown.current, column).values = Arr(<<>>)
        /\ Get(ui.shown.current, column).modality.k = "str"
        /\ Get(ui.shown.current, column).modality.s # <<>>
        /\ ui' = fetchAndRender(
                    [UserAction(ui) EXCEPT !.userFilters = Delete(ui.userFilters, column)])
    /\ OtherVars

\* The chip of a selected value that is no quick chip is clicked: the value
\* is removed from the selection.
ValueChipClick ==
    /\ CanAct
    /\ \E i \in 1..Len(Shown.config) :
        LET fc == Shown.config[i]
            column == fc.columnName
            shownValues == ValuesIn(ui.shown.current, column)
            quick == {String(QuickOptions(fc)[k]) : k \in 1..Len(QuickOptions(fc))}
        IN \E j \in 1..Len(shownValues) :
            LET v == shownValues[j]
                vals == SelectSeq(ValuesIn(ui.userFilters, column), LAMBDA x : x # v)
            IN /\ String(v) \notin SavedValuesSet(column) \cup quick
               /\ ui' = fetchAndRender(
                          [UserAction(ui) EXCEPT
                              !.userFilters =
                                  IF vals = <<>> THEN Delete(ui.userFilters, column)
                                  ELSE Set(ui.userFilters, column,
                                           [Get(ui.userFilters, column)
                                               EXCEPT !.values = Arr(vals)])])
    /\ OtherVars

\* More is clicked on a column of the view, the form is filled in and
\* Apply is clicked.
FilterPopoverApply ==
    /\ CanAct
    /\ \E i \in 1..Len(Shown.config) :
        LET ctx == Shown.config[i] IN
        \E form \in PopoverForms(ctx) :
            ui' = fetchAndRender(
                    [UserAction(ui) EXCEPT
                        !.userFilters =
                            Set(ui.userFilters, ctx.columnName,
                                Def(JStr(ctx.filterType), ModStr(form.modality),
                                    Arr(PopoverValues(ctx.filterType, form))))])
    /\ OtherVars

\* A tab is clicked: All, or a saved filter of the page.
TabsClick ==
    /\ CanAct
    /\ ui.shown.id # 0
    /\ \E id \in {JsNullId} \cup
                 {Shown.savedFilters[i].identifier : i \in 1..Len(Shown.savedFilters)} :
          ui' = fetchAndRender([UserAction(ui) EXCEPT !.currentSavedFilter = id])
    /\ OtherVars

\* Previous is clicked, which acts when the page shown is not the first.
PaginationPrev ==
    /\ CanAct
    /\ ui.shown.id # 0
    /\ Shown.pagination.currentPage > 1
    /\ ui' = fetchAndRender(
                [UserAction(ui) EXCEPT
                    !.paginationState.page = Shown.pagination.currentPage - 1])
    /\ OtherVars

\* Next is clicked, which acts when the page shown is not the last.
PaginationNext ==
    /\ CanAct
    /\ ui.shown.id # 0
    /\ Shown.pagination.currentPage < Shown.pagination.totalPages
    /\ ui' = fetchAndRender(
                [UserAction(ui) EXCEPT
                    !.paginationState.page = Shown.pagination.currentPage + 1])
    /\ OtherVars

\* Another page is chosen in the selector, which is enabled.
PageSelectorChange ==
    /\ CanAct
    /\ ~ui.pageSelector.disabled
    /\ \E page \in DOMAIN pageDefinitions \ {ui.pageSelector.value} :
          ui' = fetchAndRender(
                  [UserAction(ui) EXCEPT !.pageSelector.value = page,
                                         !.currentSavedFilter = JsNullId,
                                         !.userFilters = <<>>,
                                         !.paginationState = InitialPagination])
    /\ OtherVars

\* The response to one of the requests in flight arrives, in whatever
\* order, and fetchAndRender renders it and enables the selector.
ResponseArrives ==
    /\ ui.loaded
    /\ \E k \in 1..Len(ui.inFlight) :
          ui' = [ui EXCEPT
                    !.shown = [id |-> ui.inFlight[k].id,
                               payload |-> ui.inFlight[k].payload,
                               data |-> PageData(store, discovered, ui.inFlight[k].payload),
                               current |-> ui.userFilters],
                    !.inFlight = SubSeq(@, 1, k - 1) \o SubSeq(@, k + 1, Len(@)),
                    !.pageSelector.disabled = FALSE]
    /\ OtherVars

NextFrontend ==
    \/ QuickChipClick
    \/ ModalityChipClick
    \/ ValueChipClick
    \/ FilterPopoverApply
    \/ TabsClick
    \/ PaginationPrev
    \/ PaginationNext
    \/ PageSelectorChange
    \/ ResponseArrives

SpecFrontend == InitFrontend /\ [][NextFrontend]_vars


(***************************************************************************)
(* C24                                                                     *)
(***************************************************************************)
\* The userFilters objects of the requests sent and not yet answered.
SentFilters == {ui.inFlight[k].payload.userFilters : k \in 1..Len(ui.inFlight)}

\* The number of values the modality of a selection calls for.
ValuesCalledFor(def) ==
    IF def.modality.k = "str" /\ def.modality.s \in {Modality.is_empty, Modality.is_not_empty}
        THEN 0
    ELSE IF def.modality.k = "str" /\ def.modality.s = Modality.between THEN 2
    ELSE 1

\* C24: every entry of a userFilters object sent to the backend has a list
\* of values of the length its modality calls for: none for 'is empty' and
\* 'is not empty', two for 'between', one otherwise.
C24_ValuesAgreeWithModality ==
    \A sent \in SentFilters : \A i \in 1..Len(sent) :
        /\ sent[i].def.values.isArray
        /\ Len(sent[i].def.values.items) = ValuesCalledFor(sent[i].def)


(***************************************************************************)
(* C26                                                                     *)
(***************************************************************************)
\* C26: the page a successful response reports, as rendered, is one of the
\* pages of its result: at least 1 and at most totalPages.
C26_CurrentPageWithinTotal ==
    ui.shown.data.status = 200 =>
        /\ 1 <= ui.shown.data.pagination.currentPage
        /\ ui.shown.data.pagination.currentPage <= ui.shown.data.pagination.totalPages


(***************************************************************************)
(* C27                                                                     *)
(***************************************************************************)
\* C27: once every request has been answered, what is rendered is the
\* response to the request issued last, which is the one the script's
\* variables now describe.
C27_LatestRequestRendered ==
    (ui.issued >= 2 /\ ui.inFlight = <<>>) =>
        ui.shown.data = PageData(store, discovered, Payload(ui))


(***************************************************************************)
(* C28                                                                     *)
(***************************************************************************)
\* Two userFilters objects hold the same selection for every column.
SameSelections(a, b) ==
    \A column \in {a[i].col : i \in 1..Len(a)} \cup {b[i].col : i \in 1..Len(b)} :
        /\ HasKey(a, column) /\ HasKey(b, column)
        /\ Get(a, column) = Get(b, column)

\* C28: when the same quick chip has been clicked twice in succession,
\* userFilters holds for every column what it held before the first click,
\* the modality and the order of the values included.
C28_ToggleTwiceRestores ==
    ui.toggle.count = 2 => SameSelections(ui.userFilters, ui.toggle.before)


(***************************************************************************)
(* Two requests handled at once                                            *)
(***************************************************************************)
\* Node runs one handler until its next await; the calls of two requests
\* interleave at the awaits. Each call has the locals of its own closure;
\* the module's pageDefinitions object is shared by reference.
Requests == {1, 2}
Other(r) == 3 - r

\* The bodies the two requests are drawn from: every combination for the
\* pages of the catalog, and one body for a page it does not hold.
ConcurrentBodies ==
    LET bodies ==
            [pageIdentifier : {"leads_view", "sales_report", "no_such_page"},
             savedFilterIdentifier : {JsNullId, "high_priority_leads"},
             userFilters : {<<>>,
                            <<Entry("status", UD_ListPending)>>,
                            <<Entry("name", Def(JStr(Type.FREETEXT), ModStr(Modality.exact),
                                                Arr(<<JStr(Text.quoted)>>)))>>},
             pagination : {[present |-> TRUE, page |-> JNum(p), pageSize |-> JNum(2)] :
                              p \in 1..2}]
    IN {b \in bodies : \/ b.pageIdentifier \in DOMAIN pageDefinitions
                       \/ /\ b.savedFilterIdentifier = JsNullId
                          /\ b.userFilters = <<>>
                          /\ b.pagination.page = JNum(1)}

\* The locals of a call that has not started.
NoCall ==
    [pc |-> "start", body |-> <<>>, met |-> "", req |-> NoRequest, fields |-> <<>>, i |-> 0,
     filterConfig |-> <<>>, whereClauses |-> <<>>, limit |-> 0, offset |-> 0,
     rows |-> <<>>, res |-> NoResponse]

\* pageDefinitions[pageIdentifier] || null, on the catalog as it is now
ConfigurationIn(catalog, pageIdentifier) ==
    IF pageIdentifier \in DOMAIN catalog THEN catalog[pageIdentifier]
    ELSE IF pageIdentifier \in InheritedKeys THEN InheritedValue
    ELSE NoConfiguration

\* cfg of a call: a reference into the catalog
CfgOf(r) == ConfigurationIn(calls.catalog, calls.of[r].req.pageIdentifier)

\* Variant: one whereClauses array at module level, which every call
\* pushes onto.
NewWhereClauses_Module(pushed) == pushed

\* const whereClauses = [] inside the handler: a new array in every call,
\* whatever other calls have pushed onto theirs.
NewWhereClauses(pushed) == <<>>

ConcurrentUnchanged ==
    UNCHANGED <<bigquery, store, pc, req, cfg, fields, disc, filterConfig, whereClauses,
                limit, offset, rows, res, storeCalls, failed, compiled, ui, discovered>>

InitConcurrent ==
    /\ bigquery = TRUE
    /\ store \in StoreVariants
    /\ pc = "start"
    /\ req = NoRequest
    /\ cfg = NoConfiguration
    /\ fields = <<>>
    /\ disc = DiscIdle
    /\ filterConfig = <<>>
    /\ whereClauses = <<>>
    /\ limit = 0
    /\ offset = 0
    /\ rows = <<>>
    /\ res = NoResponse
    /\ storeCalls = <<>>
    /\ failed = <<>>
    /\ compiled = NotCompiled
    /\ ui = NoUi
    /\ discovered = Discovered(store)
    /\ calls = [catalog |-> pageDefinitions, of |-> [r \in Requests |-> NoCall]]

\* The handler is entered with a body and runs to its first await, or
\* answers at once.
Accept(r) ==
    /\ calls.of[r].pc = "start"
    /\ \E body \in ConcurrentBodies :
        LET c == ConfigurationIn(calls.catalog, body.pageIdentifier) IN
        calls' = [calls EXCEPT !.of[r] =
            [NoCall EXCEPT
                !.body = body,
                !.met = calls.of[Other(r)].pc,
                !.req = Destructure(body.pageIdentifier, body.savedFilterIdentifier,
                                    body.userFilters, body.pagination),
                !.pc = IF c = NoConfiguration \/ c.datasetId = "undefined"
                       THEN "done" ELSE "getMetadata",
                !.res = IF c = NoConfiguration
                            THEN ErrorResponse(400, "Invalid pageIdentifier")
                        ELSE IF c.datasetId = "undefined" THEN ErrorResponse(500, "TypeError")
                        ELSE NoResponse]]
    /\ ConcurrentUnchanged

\* await table.getMetadata()
SchemaRead(r) ==
    /\ calls.of[r].pc = "getMetadata"
    /\ calls' = [calls EXCEPT !.of[r].fields = TableFields(store, CfgOf(r).tableId),
                              !.of[r].i = 1,
                              !.of[r].pc = "discover"]
    /\ ConcurrentUnchanged

\* One turn of generateFilterConfig's loop with the queries it awaits.
ColumnDiscovered(r) ==
    LET h == calls.of[r]
        found == SelectSeq(discovered[CfgOf(r).tableId],
                           LAMBDA e : e.columnName = h.fields[h.i].name)
    IN /\ h.pc = "discover"
       /\ h.i <= Len(h.fields)
       /\ calls' = [calls EXCEPT !.of[r].filterConfig = @ \o found,
                                 !.of[r].i = @ + 1]
       /\ ConcurrentUnchanged

\* The config is back: the WHERE clause and the page are computed and the
\* row query is issued.
RowQueryIssued(r) ==
    LET h == calls.of[r] IN
    /\ h.pc = "discover"
    /\ h.i > Len(h.fields)
    /\ calls' = [calls EXCEPT
            !.of[r].whereClauses =
                NewWhereClauses(calls.of[Other(r)].whereClauses)
                \o BuildWhereClauses(
                        SavedFilterDefinition(CfgOf(r), h.req.savedFilterIdentifier),
                        h.req.userFilters, h.fields),
            !.of[r].limit = Limit(h.req.pagination),
            !.of[r].offset = Offset(h.req.pagination, Limit(h.req.pagination)),
            !.of[r].pc = "rowQuery"]
    /\ ConcurrentUnchanged

\* The store rejects the row query and the catch answers.
RowsRejected(r) ==
    LET h == calls.of[r] IN
    /\ h.pc = "rowQuery"
    /\ \E i \in 1..Len(h.whereClauses) : ~Executable(h.whereClauses[i], h.fields)
    /\ calls' = [calls EXCEPT !.of[r].res = ErrorResponse(500, "row query rejected"),
                              !.of[r].pc = "done"]
    /\ ConcurrentUnchanged

\* The rows arrive and the count query is issued.
RowsReturned(r) ==
    LET h == calls.of[r] IN
    /\ h.pc = "rowQuery"
    /\ \A i \in 1..Len(h.whereClauses) : Executable(h.whereClauses[i], h.fields)
    /\ calls' = [calls EXCEPT
            !.of[r].rows = Page(SelectRows(TableRows(store, CfgOf(r).tableId), h.whereClauses),
                                h.limit, h.offset),
            !.of[r].pc = "countQuery"]
    /\ ConcurrentUnchanged

\* The count arrives and the response is sent.
CountReturned(r) ==
    LET h == calls.of[r]
        totalRecords == Len(SelectRows(TableRows(store, CfgOf(r).tableId), h.whereClauses))
        found == FindSavedFilter(CfgOf(r), h.req.savedFilterIdentifier)
    IN /\ h.pc = "countQuery"
       /\ calls' = [calls EXCEPT
            !.of[r].res = PageResponse(
                            formatTableHeaders(columnNames(h.fields)),
                            h.rows,
                            h.filterConfig,
                            [currentPage |-> CurrentPage(h.req.pagination),
                             pageSize |-> h.limit,
                             totalRecords |-> totalRecords,
                             totalPages |-> TotalPages(totalRecords, h.limit)],
                            IF found = <<>> THEN JsNullId ELSE found[1].identifier),
            !.of[r].pc = "done"]
       /\ ConcurrentUnchanged

NextConcurrent ==
    \/ \E r \in Requests : Accept(r)
    \/ \E r \in Requests : SchemaRead(r)
    \/ \E r \in Requests : ColumnDiscovered(r)
    \/ \E r \in Requests : RowQueryIssued(r)
    \/ \E r \in Requests : RowsRejected(r)
    \/ \E r \in Requests : RowsReturned(r)
    \/ \E r \in Requests : CountReturned(r)

SpecConcurrent == InitConcurrent /\ [][NextConcurrent]_vars

(***************************************************************************)
(* C25                                                                     *)
(***************************************************************************)
\* C25: however the steps of two requests interleave, the response each gets
\* is the response to its body handled alone on the same store, and the
\* page catalog stays as it was loaded.
C25_RequestsIndependent ==
    /\ calls.catalog = pageDefinitions
    /\ \A r \in Requests :
          calls.of[r].pc = "done" =>
              calls.of[r].res = PageData(store, discovered, calls.of[r].body)

\* Both requests are answered, with a page of rows each and not the same
\* one, and each was accepted while the other one was at an await.
C25_Witness ==
    /\ \A r \in Requests :
          /\ calls.of[r].pc = "done"
          /\ calls.of[r].res.status = 200
          /\ calls.of[r].res.data # <<>>
          /\ calls.of[r].whereClauses # <<>>
    /\ \E r \in Requests : calls.of[r].met \in {"discover", "rowQuery", "countQuery"}
    /\ calls.of[1].res # calls.of[2].res

====
